---- MODULE Spec2Model ----
(***************************************************************************)
(* EMR Dashboard: the in-browser record store (EmrDataContext.tsx) and the *)
(* data-processing engine (lib/data-processing.ts).                        *)
(*                                                                         *)
(* Conventions of the model                                                *)
(*  - a JavaScript number is a record [k, n, d]: k = "num" is the exact    *)
(*    rational n/d in lowest terms (d > 0), k = "nan" is NaN and           *)
(*    k = "undef" is a missing (undefined) property;                       *)
(*  - a timestamp is a whole number of minutes since 1970-01-01T00:00Z;    *)
(*    a Date is [ok, t], ok = FALSE being the Invalid Date;                *)
(*  - a date-time string is [k, t]: "iso" an ISO-8601 text of instant t,   *)
(*    "bad" a text that does not parse, "none" an absent or empty value;   *)
(*  - a 'yyyy-MM-dd' key is the sequence of its ten character codes;       *)
(*  - an array is a sequence, a Set/Map is a sequence in insertion order;  *)
(*  - a call that may throw yields [threw, v]: Thrown, or Ok(v) for the    *)
(*    value v it returns.                                                  *)
(***************************************************************************)
EXTENDS Integers, Sequences, FiniteSets, TLC

VARIABLES
    clusters,      \* provider state: EmrCluster[]            (useState, l.46)
    isLoading,     \* provider state: boolean                 (useState, l.47)
    error,         \* provider state: string | null           (useState, l.48)
    pending,       \* processJsonFile calls awaiting the FileReader
    overlap,       \* history: the store when calls began to overlap, and the
                   \* batches the calls have appended since
    now,           \* the wall clock read by Date.now()
    tz,            \* the local time zone offset, in minutes east of UTC
    dateFilter,    \* Dashboard state: the selected date range
    rendered,      \* outcome of the Dashboard's last render (its useMemo values)
    call,          \* the last call of a scalar metric function and its result
    data,          \* an EMRClusterRecord[] handed to the aggregator
    daily,         \* what aggregateDataByDay returned for data
    dailyMetrics,  \* a DailyMetrics[] owned by a caller of the analytics functions
    result,        \* what the last analytics function returned
    filteredClusters,     \* Dashboard state: the displayed records (useState, l.39)
    selectedClusterName,  \* Dashboard state: <<>> is null         (useState, l.41)
    activeFilter,         \* Dashboard state: <<>> is null         (useState, l.42)
    searchTerm,    \* ClusterTable state: the text of the search box (useState, l.30)
    stateFilter,   \* ClusterTable state: "" is all states          (useState, l.31)
    currentPage,   \* ClusterTable state                            (useState, l.32)
    itemsPerPage   \* ClusterTable state                            (useState, l.33)

providerVars == <<clusters, isLoading, error, pending, overlap, now, dateFilter, rendered>>
metricVars   == <<call>>
aggVars      == <<data, daily>>
dailyVars    == <<dailyMetrics, result>>
dashboardVars == <<filteredClusters, selectedClusterName, activeFilter>>
tableVars     == <<searchTerm, stateFilter, currentPage, itemsPerPage>>
vars == <<clusters, isLoading, error, pending, overlap, now, tz, dateFilter, rendered,
          call, data, daily, dailyMetrics, result, dashboardVars, tableVars>>

\* the initial values of the useState hooks of the Dashboard and of its table
UseStateDashboard ==
    /\ filteredClusters = <<>>
    /\ selectedClusterName = <<>>
    /\ activeFilter = <<>>
    /\ searchTerm = <<>>
    /\ stateFilter = ""
    /\ currentPage = 1
    /\ itemsPerPage = 10

(***************************************************************************)
(* Bounds of the model                                                     *)
(***************************************************************************)
MaxStore   == 2      \* records kept in the store
MaxBatch   == 2      \* entries in one uploaded file
MaxPending == 2      \* overlapping processJsonFile calls
MaxClock   == 1      \* ticks of the millisecond clock
MaxRecords == 3      \* records handed to aggregateDataByDay
MaxBuckets == 15     \* daily buckets handed to the analytics functions
MaxAnomalyDays == 4  \* daily buckets handed to detectAnomalies
MaxExport  == 3      \* daily buckets handed to exportToCSV
MaxBundleRecords == 2  \* records handed to the analytics of a filtered set
MaxDashboardUploads == 1  \* uploads while the Dashboard is shown
BaseDay    == 19780  \* first calendar day of the inputs (2024-02-27)

Ok(v)  == [threw |-> FALSE, v |-> v]
Thrown == [threw |-> TRUE, v |-> <<>>]

(***************************************************************************)
(* JavaScript numbers                                                      *)
(***************************************************************************)
Abs(x) == IF x < 0 THEN -x ELSE x

RECURSIVE GCD(_, _)
GCD(a, b) == IF b = 0 THEN a ELSE GCD(b, a % b)

\* the rational n/d (d # 0) in lowest terms
Num(n, d) ==
    LET s == IF d < 0 THEN -1 ELSE 1
        g == GCD(Abs(n), Abs(d))
    IN  [k |-> "num", n |-> (s * n) \div g, d |-> (s * d) \div g]

Int2Num(i) == [k |-> "num", n |-> i, d |-> 1]
NaN        == [k |-> "nan", n |-> 0, d |-> 1]
Undefined  == [k |-> "undef", n |-> 0, d |-> 1]
Zero       == Int2Num(0)
Hundred    == Int2Num(100)

IsNum(x)   == x.k = "num"
\* arithmetic on finite numbers
Add(x, y)  == Num(x.n * y.d + y.n * x.d, x.d * y.d)
Sub(x, y)  == Num(x.n * y.d - y.n * x.d, x.d * y.d)
Mul(x, y)  == Num(x.n * y.n, x.d * y.d)
Div(x, y)  == Num(x.n * y.d, x.d * y.n)
Lt(x, y)   == x.n * y.d < y.n * x.d
Le(x, y)   == x.n * y.d <= y.n * x.d
MathMax(x, y) == IF Lt(x, y) THEN y ELSE x
MathMin(x, y) == IF Lt(y, x) THEN y ELSE x
MathAbs(x) == [x EXCEPT !.n = Abs(x.n)]
\* `v || 0`: undefined, NaN and 0 are falsy
OrZero(v)  == IF IsNum(v) THEN v ELSE Zero

\* numbers.reduce((acc, num) => acc + num, 0): the additions are exact, so the sum
\* of s[lo..hi] is taken as the sum of its two halves
RECURSIVE SumRange(_, _, _)
SumRange(s, lo, hi) ==
    IF lo > hi THEN Zero
    ELSE IF lo = hi THEN Add(Zero, s[lo])
    ELSE LET mid == (lo + hi) \div 2
         IN  Add(SumRange(s, lo, mid), SumRange(s, mid + 1, hi))

SumSeq(s) == SumRange(s, 1, Len(s))

\* Array.prototype.filter and map
Filter(s, P(_)) == SelectSeq(s, P)

Map(s, F(_)) == [i \in 1..Len(s) |-> F(s[i])]

\* the distinct elements of s in order of first appearance (Set / Map insertion order)
Distinct(s) ==
    LET firsts == {i \in 1..Len(s) : \A j \in 1..(i - 1) : s[j] # s[i]}
    IN  [k \in 1..Cardinality(firsts) |->
            s[CHOOSE i \in firsts : Cardinality({j \in firsts : j <= i}) = k]]

Range(s) == {s[i] : i \in 1..Len(s)}

\* Array.prototype.sort with a comparator: stable; Before(a, b) means cmp(a, b) < 0
SortBy(s, Before(_, _)) ==
    LET Ins(sorted, x) ==
            LET stay == {j \in 1..Len(sorted) : ~Before(x, sorted[j])}
                p    == IF stay = {} THEN 0 ELSE CHOOSE j \in stay : \A i \in stay : i <= j
            IN  SubSeq(sorted, 1, p) \o <<x>> \o SubSeq(sorted, p + 1, Len(sorted))
        S[i \in 0..Len(s)] == IF i = 0 THEN <<>> ELSE Ins(S[i - 1], s[i])
    IN  S[Len(s)]

\* Array.prototype.slice(from, to) with 0-based, end-exclusive indices
Slice(s, from, to) ==
    LET hi == IF to < Len(s) THEN to ELSE Len(s)
    IN  IF from >= hi THEN <<>> ELSE SubSeq(s, from + 1, hi)

(***************************************************************************)
(* Dates (JavaScript Date, date-fns)                                       *)
(***************************************************************************)
MinutesInHour == 60
MinutesInDay  == 1440

InvalidDate  == [ok |-> FALSE, t |-> 0]
ValidDate(t) == [ok |-> TRUE, t |-> t]

IsoString(t) == [k |-> "iso", t |-> t]
BadString    == [k |-> "bad", t |-> 0]
NoString     == [k |-> "none", t |-> 0]     \* undefined, null or ''

\* truthiness of a string-valued property
Truthy(str) == str.k # "none"

\* new Date(str) and parseISO(str): the instant of an ISO text, else Invalid Date
NewDate(str) == IF str.k = "iso" THEN ValidDate(str.t) ELSE InvalidDate
parseISO(str) == IF str.k = "iso" THEN ValidDate(str.t) ELSE InvalidDate

\* Date.prototype.toISOString: RangeError on an Invalid Date
toISOString(date) == IF date.ok THEN Ok(IsoString(date.t)) ELSE Thrown

\* the local calendar day of an instant, as days since 1970-01-01
\* a zone is its standard offset from UTC in minutes; the zone DstZone (UTC-05:00,
\* America/New_York) is one hour ahead of it from 02:00 standard time of the day
\* DstStartDay (2024-03-10) on, the other zones keep their offset
DstZone     == -300
DstStartDay == 19792
OffsetAt(t, zone) ==
    IF zone = DstZone /\ t >= DstStartDay * MinutesInDay + 2 * MinutesInHour - zone
    THEN zone + MinutesInHour
    ELSE zone
LocalDay(t, zone) == (t + OffsetAt(t, zone)) \div MinutesInDay

\* the instant of 00:00 local time of a day
LocalMidnightOf(day, zone) ==
    LET standard == day * MinutesInDay - zone
    IN  IF OffsetAt(standard - MinutesInHour, zone) # zone
        THEN standard - MinutesInHour
        ELSE standard

\* Date.prototype.getDay: 0 is Sunday (1970-01-01 was a Thursday)
getDay(date, zone) == (LocalDay(date.t, zone) + 4) % 7

\* the civil date <<year, month, day>> of a day number (proleptic Gregorian)
CivilFromDays(z0) ==
    LET z   == z0 + 719468
        era == z \div 146097
        doe == z - era * 146097
        yoe == (doe - doe \div 1460 + doe \div 36524 - doe \div 146096) \div 365
        doy == doe - (365 * yoe + yoe \div 4 - yoe \div 100)
        mp  == (5 * doy + 2) \div 153
        d   == doy - (153 * mp + 2) \div 5 + 1
        m   == IF mp < 10 THEN mp + 3 ELSE mp - 9
        y   == yoe + era * 400 + (IF m <= 2 THEN 1 ELSE 0)
    IN  <<y, m, d>>

\* character codes: '0' is 48, '-' is 45
Digits(n, width) == [i \in 1..width |-> 48 + ((n \div (10 ^ (width - i))) % 10)]

\* format(date, 'yyyy-MM-dd') in the local zone: RangeError on an Invalid Date
FormatDay(date, zone) ==
    IF ~date.ok THEN Thrown
    ELSE LET c == CivilFromDays(LocalDay(date.t, zone))
         IN  Ok(Digits(c[1], 4) \o <<45>> \o Digits(c[2], 2) \o <<45>> \o Digits(c[3], 2))

\* the number written in the characters from..to of a text of digits
DigitsValue(text, from, to) ==
    LET V[i \in (from - 1)..to] == IF i < from THEN 0 ELSE 10 * V[i - 1] + (text[i] - 48)
    IN  V[to]

\* the day number of a civil date (proleptic Gregorian)
DaysFromCivil(y0, m, d) ==
    LET y   == IF m <= 2 THEN y0 - 1 ELSE y0
        era == y \div 400
        yoe == y - era * 400
        mp  == IF m > 2 THEN m - 3 ELSE m + 9
        doy == (153 * mp + 2) \div 5 + d - 1
        doe == yoe * 365 + yoe \div 4 - yoe \div 100 + doy
    IN  era * 146097 + doe - 719468

\* the day number of a 'yyyy-MM-dd' text, and the text of a day number
DayOfKey(key) ==
    DaysFromCivil(DigitsValue(key, 1, 4), DigitsValue(key, 6, 7), DigitsValue(key, 9, 10))
KeyOfDay(day) ==
    LET c == CivilFromDays(day)
    IN  Digits(c[1], 4) \o <<45>> \o Digits(c[2], 2) \o <<45>> \o Digits(c[3], 2)

\* a.localeCompare(b) < 0 for texts over digits and '-': first differing character decides
LocaleBefore(a, b) ==
    \/ \E i \in 1..Len(a) :
           /\ i <= Len(b)
           /\ \A j \in 1..(i - 1) : a[j] = b[j]
           /\ a[i] < b[i]
    \/ Len(a) < Len(b) /\ a = SubSeq(b, 1, Len(a))

(***************************************************************************)
(* lib/data-processing.ts: metric functions                                *)
(***************************************************************************)
\* typeof v === 'number' (NaN included)
TypeofNumber(v) == v.k \in {"num", "nan"}

\* faulty variant: the cap at 100 % is missing
calculateMemoryUsagePercentUncapped(allocatedMB, totalMB) ==
    IF ~TypeofNumber(allocatedMB) \/ ~TypeofNumber(totalMB) THEN Zero
    ELSE IF ~IsNum(allocatedMB) \/ ~IsNum(totalMB) THEN NaN
    ELSE IF totalMB.n = 0 THEN Zero
    ELSE IF Lt(allocatedMB, Zero) \/ Lt(totalMB, Zero) THEN Zero
    ELSE Mul(Div(allocatedMB, totalMB), Hundred)

calculateMemoryUsagePercent(allocatedMB, totalMB) ==
    IF ~TypeofNumber(allocatedMB) \/ ~TypeofNumber(totalMB) THEN Zero
    ELSE IF ~IsNum(allocatedMB) \/ ~IsNum(totalMB) THEN NaN   \* every test below is false on NaN
    ELSE IF totalMB.n = 0 THEN Zero
    ELSE IF Lt(allocatedMB, Zero) \/ Lt(totalMB, Zero) THEN Zero
    ELSE IF Lt(totalMB, allocatedMB) THEN Hundred
    ELSE Mul(Div(allocatedMB, totalMB), Hundred)

\* faulty variant: rounded to the nearest hour
differenceInHoursRounded(dateLeft, dateRight) ==
    LET diff == dateLeft.t - dateRight.t
    IN  IF diff >= 0 THEN (diff + 30) \div MinutesInHour
        ELSE -((30 - diff) \div MinutesInHour)

\* differenceInHours(later, earlier): whole hours, truncated toward zero
differenceInHours(dateLeft, dateRight) ==
    LET diff == dateLeft.t - dateRight.t
    IN  IF diff >= 0 THEN diff \div MinutesInHour ELSE -((-diff) \div MinutesInHour)

\* faulty variant: no check of the order of the two dates, no Math.max
calculateRuntimeHoursUnchecked(creationDateTime, endDateTime) ==
    IF ~Truthy(creationDateTime) \/ ~Truthy(endDateTime) THEN Zero
    ELSE LET startDate == parseISO(creationDateTime)
             endDate   == parseISO(endDateTime)
         IN  IF ~startDate.ok \/ ~endDate.ok THEN Zero
             ELSE Int2Num(differenceInHours(endDate, startDate))

calculateRuntimeHours(creationDateTime, endDateTime) ==
    IF ~Truthy(creationDateTime) \/ ~Truthy(endDateTime) THEN Zero
    ELSE LET startDate == parseISO(creationDateTime)
             endDate   == parseISO(endDateTime)
         IN  IF ~startDate.ok \/ ~endDate.ok THEN Zero
             ELSE IF endDate.t < startDate.t THEN Zero
             ELSE MathMax(Zero, Int2Num(differenceInHours(endDate, startDate)))

calculateAverage(numbers) ==
    IF Len(numbers) = 0 THEN Zero
    ELSE LET validNumbers == Filter(numbers, IsNum)
         IN  IF Len(validNumbers) = 0 THEN Zero
             ELSE Div(SumSeq(validNumbers), Int2Num(Len(validNumbers)))

(***************************************************************************)
(* lib/data-processing.ts: daily aggregation                               *)
(***************************************************************************)
\* the try block of the grouping loop: the 'yyyy-MM-dd' key of a record, or a throw
DayKey(record, zone) == FormatDay(parseISO(record.CreationDateTime), zone)

\* the grouping loop: the records whose key could be computed (the others are
\* skipped by the catch), and the keys of the Map in insertion order
GroupedRecords(records, zone) == Filter(records, LAMBDA r : ~DayKey(r, zone).threw)
GroupKeys(records, zone) ==
    Distinct(Map(GroupedRecords(records, zone), LAMBDA r : DayKey(r, zone).v))
GroupOf(records, zone, date) ==
    Filter(GroupedRecords(records, zone), LAMBDA r : DayKey(r, zone).v = date)

\* faulty variant: the bucket counts its records instead of its distinct cluster names
DailyBucketCountingRecords(date, recs) ==
    [date |-> date,
     avgMemoryUsagePercent |-> calculateAverage(Map(recs, LAMBDA r :
         calculateMemoryUsagePercent(r.MaxMemoryAllocatedMB, r.MaxMemoryTotalMB))),
     avgYARNMemoryAvailablePercent |->
         calculateAverage(Map(recs, LAMBDA r : r.MinYARNMemoryAvailablePercentage)),
     avgRuntimeHours |-> calculateAverage(Map(recs, LAMBDA r :
         calculateRuntimeHours(r.CreationDateTime, r.EndDateTime))),
     avgRemainingCapacityGB |-> calculateAverage(Map(recs, LAMBDA r : r.MinCapacityRemainingGB)),
     clusterCount |-> Len(recs),
     clusters |-> Map(recs, LAMBDA r : r.ClusterName),
     avgUnhealthyNodes |-> calculateAverage(Map(recs, LAMBDA r : OrZero(r.MaxMRUnhealthyNodes)))]

\* the metrics of one day, from the records grouped under its key
DailyBucket(date, recs) ==
    LET memoryUsages == Map(recs, LAMBDA r :
            calculateMemoryUsagePercent(r.MaxMemoryAllocatedMB, r.MaxMemoryTotalMB))
        yarnMemoryAvailable == Map(recs, LAMBDA r : r.MinYARNMemoryAvailablePercentage)
        runtimeHours == Map(recs, LAMBDA r :
            calculateRuntimeHours(r.CreationDateTime, r.EndDateTime))
        remainingCapacities == Map(recs, LAMBDA r : r.MinCapacityRemainingGB)
        unhealthyNodes == Map(recs, LAMBDA r : OrZero(r.MaxMRUnhealthyNodes))
        uniqueClusters == Distinct(Map(recs, LAMBDA r : r.ClusterName))
    IN  [date |-> date,
         avgMemoryUsagePercent |-> calculateAverage(memoryUsages),
         avgYARNMemoryAvailablePercent |-> calculateAverage(yarnMemoryAvailable),
         avgRuntimeHours |-> calculateAverage(runtimeHours),
         avgRemainingCapacityGB |-> calculateAverage(remainingCapacities),
         clusterCount |-> Len(uniqueClusters),
         clusters |-> uniqueClusters,
         avgUnhealthyNodes |-> calculateAverage(unhealthyNodes)]

\* faulty variant: the buckets are returned in Map insertion order, not sorted
aggregateDataByDayUnsorted(records, zone) ==
    IF Len(records) = 0 THEN <<>>
    ELSE Map(GroupKeys(records, zone),
             LAMBDA date : DailyBucket(date, GroupOf(records, zone, date)))

aggregateDataByDay(records, zone) ==
    IF Len(records) = 0 THEN <<>>
    ELSE LET metrics == Map(GroupKeys(records, zone),
                            LAMBDA date : DailyBucket(date, GroupOf(records, zone, date)))
         IN  SortBy(metrics, LAMBDA a, b : LocaleBefore(a.date, b.date))

(***************************************************************************)
(* lib/data-processing.ts: trailing-week KPIs, deltas and health           *)
(***************************************************************************)
LatestDays        == 7     \* slice(0, 7) of calculateWeeklyKPIs
PreviousWeekStart == 7     \* slice(7, 14) of calculatePreviousWeeklyKPIs
PreviousWeekEnd   == 14
HealthLatestDays  == 7     \* slice(0, 7) of computeHealthSummary

ZeroKPIs ==
    [avgMemoryUsagePercent |-> Zero,
     avgYARNMemoryAvailablePercent |-> Zero,
     avgRuntimeHours |-> Zero,
     avgRemainingCapacityGB |-> Zero,
     clusterCount |-> 0]

\* sort((a, b) => b.date.localeCompare(a.date))
SortDescByDate(metrics) == SortBy(metrics, LAMBDA a, b : LocaleBefore(b.date, a.date))

\* days.forEach(day => day.clusters.forEach(cluster => allClusters.add(cluster)))
RECURSIVE Flatten(_)
Flatten(ss) == IF ss = <<>> THEN <<>> ELSE Head(ss) \o Flatten(Tail(ss))
AllClusters(days) == Distinct(Flatten(Map(days, LAMBDA d : d.clusters)))

WindowKPIs(days) ==
    [avgMemoryUsagePercent |-> calculateAverage(Map(days, LAMBDA d : d.avgMemoryUsagePercent)),
     avgYARNMemoryAvailablePercent |->
         calculateAverage(Map(days, LAMBDA d : d.avgYARNMemoryAvailablePercent)),
     avgRuntimeHours |-> calculateAverage(Map(days, LAMBDA d : d.avgRuntimeHours)),
     avgRemainingCapacityGB |-> calculateAverage(Map(days, LAMBDA d : d.avgRemainingCapacityGB)),
     clusterCount |-> Len(AllClusters(days))]

\* what calculateWeeklyKPIs leaves in the caller's array: Array.prototype.sort is in place
WeeklyKPIsSortInPlace(metrics) ==
    IF Len(metrics) = 0 THEN metrics ELSE SortDescByDate(metrics)

\* faulty variant: the first 7 buckets of the array as given, without sorting by date
calculateWeeklyKPIsUnsorted(metrics) ==
    IF Len(metrics) = 0 THEN ZeroKPIs
    ELSE WindowKPIs(Slice(metrics, 0, LatestDays))

calculateWeeklyKPIs(metrics) ==
    IF Len(metrics) = 0 THEN ZeroKPIs
    ELSE LET sortedMetrics == SortDescByDate(metrics)
             weeklyData    == Slice(sortedMetrics, 0, LatestDays)
         IN  WindowKPIs(weeklyData)

calculatePreviousWeeklyKPIs(metrics) ==
    IF Len(metrics) = 0 THEN ZeroKPIs
    ELSE LET sortedDesc   == SortDescByDate(metrics)
             previousWeek == Slice(sortedDesc, PreviousWeekStart, PreviousWeekEnd)
         IN  IF Len(previousWeek) = 0 THEN ZeroKPIs ELSE WindowKPIs(previousWeek)

\* faulty variant: divides by previous instead of |previous|
pctSigned(c, p) ==
    IF p.n = 0 THEN (IF c.n = 0 THEN Zero ELSE Hundred)
    ELSE Mul(Div(Sub(c, p), p), Hundred)

pct(c, p) ==
    IF p.n = 0 THEN (IF c.n = 0 THEN Zero ELSE Hundred)
    ELSE Mul(Div(Sub(c, p), MathAbs(p)), Hundred)

\* the deltas are all numbers; clusterCount is a count in the inputs
calculateKPIDeltas(current, previous) ==
    [avgMemoryUsagePercent |-> pct(current.avgMemoryUsagePercent, previous.avgMemoryUsagePercent),
     avgYARNMemoryAvailablePercent |->
         pct(current.avgYARNMemoryAvailablePercent, previous.avgYARNMemoryAvailablePercent),
     avgRuntimeHours |-> pct(current.avgRuntimeHours, previous.avgRuntimeHours),
     avgRemainingCapacityGB |-> pct(current.avgRemainingCapacityGB, previous.avgRemainingCapacityGB),
     clusterCount |-> pct(Int2Num(current.clusterCount), Int2Num(previous.clusterCount))]

clamp(n, min, max) == MathMax(min, MathMin(max, n))

\* faulty variant: the score is not clamped
HealthScoreUnclamped(d) ==
    LET memoryPenalty ==
            Mul(MathMax(Zero, Sub(d.avgMemoryUsagePercent, Int2Num(80))), Num(12, 10))
        yarnPenalty ==
            Mul(MathMax(Zero, Sub(Int2Num(30), d.avgYARNMemoryAvailablePercent)), Num(15, 10))
        capacityPenalty ==
            Mul(MathMax(Zero, Sub(Int2Num(200), d.avgRemainingCapacityGB)), Num(1, 10))
        unhealthyNodesPenalty == Mul(d.avgUnhealthyNodes, Int2Num(2))
    IN  [date |-> d.date,
         score |-> Sub(Hundred, Add(Add(Add(memoryPenalty, yarnPenalty), capacityPenalty),
                                    unhealthyNodesPenalty))]

HealthScore(d) ==
    LET memoryPenalty ==
            Mul(MathMax(Zero, Sub(d.avgMemoryUsagePercent, Int2Num(80))), Num(12, 10))
        yarnPenalty ==
            Mul(MathMax(Zero, Sub(Int2Num(30), d.avgYARNMemoryAvailablePercent)), Num(15, 10))
        capacityPenalty ==
            Mul(MathMax(Zero, Sub(Int2Num(200), d.avgRemainingCapacityGB)), Num(1, 10))
        unhealthyNodesPenalty == Mul(d.avgUnhealthyNodes, Int2Num(2))
        rawScore == Sub(Hundred, Add(Add(Add(memoryPenalty, yarnPenalty), capacityPenalty),
                                     unhealthyNodesPenalty))
    IN  [date |-> d.date, score |-> clamp(rawScore, Zero, Hundred)]

\* faulty variant: the average of the first 7 scores as given, without sorting by date
computeHealthSummaryUnsorted(metrics) ==
    LET dailyScores == Map(metrics, HealthScore)
        latest7     == Slice(dailyScores, 0, HealthLatestDays)
        weeklyAverage ==
            IF Len(latest7) > 0
            THEN Div(SumSeq(Map(latest7, LAMBDA p : p.score)), Int2Num(Len(latest7)))
            ELSE Zero
    IN  [daily |-> dailyScores, weeklyAverage |-> weeklyAverage]

\* faulty variant: the weekly average of no scores is 100
computeHealthSummaryFullWhenEmpty(metrics) ==
    LET dailyScores == Map(metrics, HealthScore)
        sortedDesc  == SortDescByDate(dailyScores)
        latest7     == Slice(sortedDesc, 0, HealthLatestDays)
        weeklyAverage ==
            IF Len(latest7) > 0
            THEN Div(SumSeq(Map(latest7, LAMBDA p : p.score)), Int2Num(Len(latest7)))
            ELSE Hundred
    IN  [daily |-> dailyScores, weeklyAverage |-> weeklyAverage]

computeHealthSummary(metrics) ==
    LET dailyScores == Map(metrics, HealthScore)
        sortedDesc  == SortDescByDate(dailyScores)
        latest7     == Slice(sortedDesc, 0, HealthLatestDays)
        weeklyAverage ==
            IF Len(latest7) > 0
            THEN Div(SumSeq(Map(latest7, LAMBDA p : p.score)), Int2Num(Len(latest7)))
            ELSE Zero
    IN  [daily |-> dailyScores, weeklyAverage |-> weeklyAverage]

AnomalyMetrics ==
    <<"avgMemoryUsagePercent", "avgYARNMemoryAvailablePercent", "avgRuntimeHours",
      "avgRemainingCapacityGB">>

\* the z-score (value - mean) / stdDev with stdDev = Math.sqrt(variance) || 1, kept
\* exactly as its sign and its square: z = sign * sqrt(square)
ZScore(value, mean, variance) ==
    LET dev == Sub(value, mean)
        sq  == Mul(dev, dev)
    IN  [sign   |-> IF dev.n > 0 THEN 1 ELSE IF dev.n < 0 THEN -1 ELSE 0,
         square |-> IF variance.n = 0 THEN sq ELSE Div(sq, variance)]

\* z itself is ordered like sign * square, |z| like square
SignedSquare(z) == [z.square EXCEPT !.n = z.sign * @]

\* the anomalies array before the sort: for each metric in turn, one entry per bucket
AnomalyCandidates(metrics) ==
    LET perMetric(metric) ==
            LET values   == Map(metrics, LAMBDA d : d[metric])
                mean     == calculateAverage(values)
                variance == calculateAverage(
                                Map(values, LAMBDA v : Mul(Sub(v, mean), Sub(v, mean))))
            IN  Map(metrics, LAMBDA d :
                    [date |-> d.date, metric |-> metric, value |-> d[metric],
                     zScore |-> ZScore(d[metric], mean, variance)])
    IN  IF Len(metrics) = 0 THEN <<>>
        ELSE Flatten([k \in 1..Len(AnomalyMetrics) |-> perMetric(AnomalyMetrics[k])])

\* faulty variant: sorted by z instead of |z|
detectAnomaliesSigned(metrics, topN) ==
    Slice(SortBy(AnomalyCandidates(metrics),
                 LAMBDA a, b : Lt(SignedSquare(b.zScore), SignedSquare(a.zScore))),
          0, topN)

\* sort((a, b) => Math.abs(b.zScore) - Math.abs(a.zScore)).slice(0, topN)
detectAnomalies(metrics, topN) ==
    Slice(SortBy(AnomalyCandidates(metrics),
                 LAMBDA a, b : Lt(b.zScore.square, a.zScore.square)),
          0, topN)

\* sort((a, b) => a.date.localeCompare(b.date))
SortAscByDate(metrics) == SortBy(metrics, LAMBDA a, b : LocaleBefore(a.date, b.date))

\* the least-squares line through (1, ys[1]), ..., (n, ys[n]); a denominator of 0
\* is replaced by 1
Regression(ys) ==
    LET n     == Len(ys)
        xs    == [i \in 1..n |-> Int2Num(i)]
        sumX  == SumSeq(xs)
        sumY  == SumSeq(ys)
        sumXY == SumSeq([i \in 1..n |-> Mul(xs[i], ys[i])])
        sumXX == SumSeq([i \in 1..n |-> Mul(xs[i], xs[i])])
        d0    == Sub(Mul(Int2Num(n), sumXX), Mul(sumX, sumX))
        denom == IF d0.n = 0 THEN Int2Num(1) ELSE d0
        slope == Div(Sub(Mul(Int2Num(n), sumXY), Mul(sumX, sumY)), denom)
        intercept == Div(Sub(sumY, Mul(slope, sumX)), Int2Num(n))
    IN  [slope |-> slope, intercept |-> intercept]

\* faulty variant: the predicted value is not limited to [0, 100]
forecastMemoryUsageUnclamped(metrics, horizonDays) ==
    IF Len(metrics) = 0 THEN <<>>
    ELSE LET sorted == SortAscByDate(metrics)
             n      == Len(sorted)
             line   == Regression(Map(sorted, LAMBDA d : d.avgMemoryUsagePercent))
             lastDay == DayOfKey(sorted[n].date)
         IN  [i \in 1..horizonDays |->
                 [date |-> KeyOfDay(lastDay + i),
                  avgMemoryUsagePercent |->
                      Add(line.intercept, Mul(line.slope, Int2Num(n + i)))]]

forecastMemoryUsage(metrics, horizonDays) ==
    IF Len(metrics) = 0 THEN <<>>
    ELSE LET sorted == SortAscByDate(metrics)
             n      == Len(sorted)
             line   == Regression(Map(sorted, LAMBDA d : d.avgMemoryUsagePercent))
             lastDay == DayOfKey(sorted[n].date)
         IN  [i \in 1..horizonDays |->
                 LET yFuture == Add(line.intercept, Mul(line.slope, Int2Num(n + i)))
                 IN  [date |-> KeyOfDay(lastDay + i),
                      avgMemoryUsagePercent |-> MathMax(Zero, MathMin(Hundred, yFuture))]]

(***************************************************************************)
(* lib/data-processing.ts: date filter and filtered KPIs                   *)
(***************************************************************************)
\* startOfDay / endOfDay in the local zone; endOfDay is the day's last whole minute
startOfDay(date, zone) == ValidDate(LocalMidnightOf(LocalDay(date.t, zone), zone))
endOfDay(date, zone)   == ValidDate(LocalMidnightOf(LocalDay(date.t, zone) + 1, zone) - 1)

\* isWithinInterval(date, {start, end}) for start <= end: false for an Invalid Date
isWithinInterval(date, interval) ==
    date.ok /\ interval.start.t <= date.t /\ date.t <= interval.end.t

\* faulty variant: only the creation time is matched against the range
filterEMRDataCreationOnly(records, filters, zone) ==
    Filter(records, LAMBDA record :
        IF filters.clusterName # "" /\ record.ClusterName # filters.clusterName THEN FALSE
        ELSE IF filters.startDate # <<>> /\ filters.endDate # <<>>
             THEN LET creationDate == parseISO(record.CreationDateTime)
                      interval     == [start |-> startOfDay(filters.startDate[1], zone),
                                       end   |-> endOfDay(filters.endDate[1], zone)]
                  IN  isWithinInterval(creationDate, interval)
             ELSE TRUE)

\* filters: clusterName ("" when not given), startDate and endDate (<<>> when not given)
filterEMRData(records, filters, zone) ==
    Filter(records, LAMBDA record :
        IF filters.clusterName # "" /\ record.ClusterName # filters.clusterName THEN FALSE
        ELSE IF filters.startDate # <<>> /\ filters.endDate # <<>>
             THEN LET creationDate == parseISO(record.CreationDateTime)
                      endDate      == parseISO(record.EndDateTime)
                      interval     == [start |-> startOfDay(filters.startDate[1], zone),
                                       end   |-> endOfDay(filters.endDate[1], zone)]
                  IN  isWithinInterval(creationDate, interval)
                          \/ isWithinInterval(endDate, interval)
             ELSE TRUE)

\* getDateRange: Math.min and Math.max of the getTime() of every creation and end
\* time; one NaN (an Invalid Date) makes both NaN, and new Date(NaN) is an Invalid
\* Date. For no record both are the current time.
getDateRange(records, clock) ==
    IF Len(records) = 0
    THEN [startDate |-> ValidDate(clock), endDate |-> ValidDate(clock)]
    ELSE LET dates == Flatten(Map(records, LAMBDA record :
                          <<parseISO(record.CreationDateTime), parseISO(record.EndDateTime)>>))
             times == {dates[i].t : i \in 1..Len(dates)}
         IN  IF \E i \in 1..Len(dates) : ~dates[i].ok
             THEN [startDate |-> InvalidDate, endDate |-> InvalidDate]
             ELSE [startDate |-> ValidDate(CHOOSE t \in times : \A u \in times : t <= u),
                   endDate |-> ValidDate(CHOOSE t \in times : \A u \in times : u <= t)]

DateOnly(filter) ==
    [clusterName |-> "", startDate |-> <<filter.startDate>>, endDate |-> <<filter.endDate>>]

calculateFilteredKPIMetrics(records, filter, zone) ==
    LET filteredData == filterEMRData(records, DateOnly(filter), zone)
    IN  IF Len(filteredData) = 0 THEN ZeroKPIs
        ELSE
        LET memoryUsages == Map(filteredData, LAMBDA r :
                calculateMemoryUsagePercent(r.MaxMemoryAllocatedMB, r.MaxMemoryTotalMB))
            runtimeHours == Map(filteredData, LAMBDA r :
                calculateRuntimeHours(r.CreationDateTime, r.EndDateTime))
            yarnMemoryAvailable == Map(filteredData, LAMBDA r : r.MinYARNMemoryAvailablePercentage)
            remainingCapacities == Map(filteredData, LAMBDA r : r.MinCapacityRemainingGB)
            uniqueClusters == Distinct(Map(filteredData, LAMBDA r : r.ClusterName))
        IN  [avgMemoryUsagePercent |-> calculateAverage(memoryUsages),
             avgYARNMemoryAvailablePercent |-> calculateAverage(yarnMemoryAvailable),
             avgRuntimeHours |-> calculateAverage(runtimeHours),
             avgRemainingCapacityGB |-> calculateAverage(remainingCapacities),
             clusterCount |-> Len(uniqueClusters)]

calculateDailyKPIMetrics(records, filter, zone) ==
    LET dailyData == aggregateDataByDay(filterEMRData(records, DateOnly(filter), zone), zone)
    IN  Map(dailyData, LAMBDA day :
            [date |-> day.date,
             avgMemoryUsagePercent |-> day.avgMemoryUsagePercent,
             avgYARNMemoryAvailablePercent |-> day.avgYARNMemoryAvailablePercent,
             avgRuntimeHours |-> day.avgRuntimeHours,
             avgRemainingCapacityGB |-> day.avgRemainingCapacityGB,
             clusterCount |-> day.clusterCount])

\* the key of the week of a daily bucket: parseISO(day.date) is 00:00 local time
\* of the day; getDay() times 24 hours are taken off its time value
WeekStartOf(day, zone) ==
    LET date == ValidDate(LocalMidnightOf(DayOfKey(day.date), zone))
    IN  FormatDay(ValidDate(date.t - getDay(date, zone) * MinutesInDay), zone).v

calculateWeeklyKPIMetrics(records, filter, zone) ==
    LET dailyData == aggregateDataByDay(filterEMRData(records, DateOnly(filter), zone), zone)
        weekStarts == Distinct(Map(dailyData, LAMBDA day : WeekStartOf(day, zone)))
        Week(weekStart) ==
            LET days == Filter(dailyData, LAMBDA day : WeekStartOf(day, zone) = weekStart)
            IN  [week |-> weekStart,
                 avgMemoryUsagePercent |->
                     calculateAverage(Map(days, LAMBDA d : d.avgMemoryUsagePercent)),
                 avgYARNMemoryAvailablePercent |->
                     calculateAverage(Map(days, LAMBDA d : d.avgYARNMemoryAvailablePercent)),
                 avgRuntimeHours |-> calculateAverage(Map(days, LAMBDA d : d.avgRuntimeHours)),
                 avgRemainingCapacityGB |->
                     calculateAverage(Map(days, LAMBDA d : d.avgRemainingCapacityGB)),
                 clusterCount |-> Len(AllClusters(days))]
    IN  SortBy(Map(weekStarts, Week), LAMBDA a, b : LocaleBefore(a.week, b.week))

\* computeAnalyticsBundle: calculateWeeklyKPIs leaves the array sorted by date
\* descending, and the later calls read it in that order
computeAnalyticsBundle(metrics) ==
    LET current  == calculateWeeklyKPIs(metrics)
        sorted   == WeeklyKPIsSortInPlace(metrics)
        previous == calculatePreviousWeeklyKPIs(sorted)
    IN  [trends |-> [previousWeek |-> previous, delta |-> calculateKPIDeltas(current, previous)],
         health |-> computeHealthSummary(sorted),
         anomalies |-> detectAnomalies(sorted, 3),
         forecast |-> forecastMemoryUsage(sorted, 7)]

(***************************************************************************)
(* lib/data-processing.ts: CSV export                                      *)
(***************************************************************************)
\* texts are sequences of character codes: ',' is 44, ';' is 59, '.' is 46,
\* '-' is 45 and the line feed is 10
Comma     == 44
Semicolon == 59
LineFeed  == 10

\* Array.prototype.join of texts with a one-character separator
RECURSIVE Join(_, _)
Join(texts, sep) ==
    IF texts = <<>> THEN <<>>
    ELSE IF Len(texts) = 1 THEN texts[1]
    ELSE texts[1] \o <<sep>> \o Join(Tail(texts), sep)

\* the decimal digits of a natural number, without leading zeros
RECURSIVE NaturalToString(_)
NaturalToString(n) ==
    IF n < 10 THEN <<48 + n>> ELSE NaturalToString(n \div 10) \o <<48 + (n % 10)>>

\* Number.prototype.toFixed(2): 'NaN' for NaN; otherwise the sign, then the integer
\* n for which n / 100 is closest to the magnitude (the larger n of two), written
\* with a point before its last two digits
toFixed2(x) ==
    IF ~IsNum(x) THEN <<78, 97, 78>>
    ELSE LET n == (2 * 100 * Abs(x.n) + x.d) \div (2 * x.d)
         IN  (IF x.n < 0 THEN <<45>> ELSE <<>>)
             \o NaturalToString(n \div 100) \o <<46>> \o Digits(n % 100, 2)

\* the characters of a cluster name or a cluster id
CharsOf(name) ==
    CASE name = "A" -> <<65>>
      [] name = "B" -> <<66>>
      [] name = "j-1" -> <<106, 45, 49>>
      [] name = "j-3" -> <<106, 45, 51>>
      [] name = "etl\nnightly" ->
             <<101, 116, 108, LineFeed, 110, 105, 103, 104, 116, 108, 121>>

headers ==
    <<
      \* 'Date'
      <<68, 97, 116, 101>>,
      \* 'Avg Memory Usage %'
      <<65, 118, 103, 32, 77, 101, 109, 111, 114, 121, 32, 85, 115, 97, 103, 101,
       32, 37>>,
      \* 'Avg YARN Memory Available %'
      <<65, 118, 103, 32, 89, 65, 82, 78, 32, 77, 101, 109, 111, 114, 121, 32, 65,
       118, 97, 105, 108, 97, 98, 108, 101, 32, 37>>,
      \* 'Avg Runtime Hours'
      <<65, 118, 103, 32, 82, 117, 110, 116, 105, 109, 101, 32, 72, 111, 117, 114,
       115>>,
      \* 'Avg Remaining Capacity GB'
      <<65, 118, 103, 32, 82, 101, 109, 97, 105, 110, 105, 110, 103, 32, 67, 97,
       112, 97, 99, 105, 116, 121, 32, 71, 66>>,
      \* 'Avg Unhealthy Nodes'
      <<65, 118, 103, 32, 85, 110, 104, 101, 97, 108, 116, 104, 121, 32, 78, 111,
       100, 101, 115>>,
      \* 'Cluster Count'
      <<67, 108, 117, 115, 116, 101, 114, 32, 67, 111, 117, 110, 116>>,
      \* 'Clusters'
      <<67, 108, 117, 115, 116, 101, 114, 115>>
    >>

CsvRow(metric) ==
    Join(<<metric.date,
           toFixed2(metric.avgMemoryUsagePercent),
           toFixed2(metric.avgYARNMemoryAvailablePercent),
           toFixed2(metric.avgRuntimeHours),
           toFixed2(metric.avgRemainingCapacityGB),
           toFixed2(metric.avgUnhealthyNodes),
           NaturalToString(metric.clusterCount),
           Join(Map(metric.clusters, CharsOf), Semicolon)>>, Comma)

exportToCSV(metrics) ==
    IF Len(metrics) = 0 THEN <<>>
    ELSE Join(<<Join(headers, Comma)>> \o Map(metrics, CsvRow), LineFeed)

(***************************************************************************)
(* context/EmrDataContext.tsx: the provider                                *)
(***************************************************************************)
\* a string property of an uploaded entry: a text, '', null or missing
Missing   == "<undefined>"
Null      == "<null>"
Falsy(str) == str \in {Missing, Null, ""}

NoError == [set |-> FALSE, msg |-> "", index |-> -1]
ErrorOf(msg, index) == [set |-> TRUE, msg |-> msg, index |-> index]

\* the template literal `cluster-${index}-${Date.now()}` of an id
IdText(id) ==
    <<99, 108, 117, 115, 116, 101, 114, 45>>
        \o NaturalToString(id[2]) \o <<45>> \o NaturalToString(id[3])

\* every record of one batch reads the same clock value
convertRawDataToCluster(rawData, index, clock) ==
    [id |-> <<"cluster", index, clock>>,
     clusterName |-> rawData.ClusterName,
     clusterId |-> rawData.ClusterId,
     creationDateTime |-> NewDate(rawData.CreationDateTime),
     endDateTime |-> IF Truthy(rawData.EndDateTime)
                     THEN <<NewDate(rawData.EndDateTime)>> ELSE <<>>,
     minCapacityRemainingGB |-> rawData.MinCapacityRemainingGB,
     minYARNMemoryAvailablePercentage |-> rawData.MinYARNMemoryAvailablePercentage,
     maxMemoryAllocatedMB |-> rawData.MaxMemoryAllocatedMB,
     maxMemoryTotalMB |-> rawData.MaxMemoryTotalMB,
     maxMRUnhealthyNodes |-> rawData.MaxMRUnhealthyNodes,
     state |-> rawData.State,
     uploadedAt |-> clock]

\* faulty variant: State is not required
InvalidEntriesWithoutState(rawClusters) ==
    {i \in 1..Len(rawClusters) :
        \/ Falsy(rawClusters[i].ClusterName)
        \/ Falsy(rawClusters[i].ClusterId)}

\* the validation of rawClusters.map: the entries that lack a required field
InvalidEntries(rawClusters) ==
    {i \in 1..Len(rawClusters) :
        \/ Falsy(rawClusters[i].ClusterName)
        \/ Falsy(rawClusters[i].ClusterId)
        \/ Falsy(rawClusters[i].State)}

\* the body of processJsonFile after the FileReader settled: the error it throws
\* (Thrown, with the message in err) or the converted batch
ProcessFile(file, clock) ==
    IF file.kind = "unreadable"
    THEN [threw |-> TRUE, err |-> ErrorOf("Failed to read file", -1), v |-> <<>>]
    ELSE IF file.kind = "malformed"
    THEN [threw |-> TRUE, err |-> ErrorOf("Invalid JSON format", -1), v |-> <<>>]
    ELSE
    LET rawClusters == file.entries
        bad == InvalidEntries(rawClusters)
    IN  IF Len(rawClusters) = 0
        THEN [threw |-> TRUE, err |-> ErrorOf("No cluster data found in file", -1), v |-> <<>>]
        ELSE IF bad # {}
        THEN LET first == CHOOSE i \in bad : \A j \in bad : i <= j
             IN  [threw |-> TRUE,
                  err |-> ErrorOf("Missing required fields in cluster data at index", first - 1),
                  v |-> <<>>]
        ELSE [threw |-> FALSE, err |-> NoError,
              v |-> [i \in 1..Len(rawClusters) |->
                        convertRawDataToCluster(rawClusters[i], i - 1, clock)]]

\* history of overlapping processJsonFile calls: no overlap; the overlap that begins
\* when a call starts while another is in flight; a call of it has settled
NoOverlap == [on |-> FALSE, prior |-> <<>>, batches |-> <<>>]

OverlapAfterStart ==
    IF pending = 0 THEN NoOverlap
    ELSE IF overlap.on THEN overlap
    ELSE [on |-> TRUE, prior |-> clusters, batches |-> <<>>]

OverlapAfterSettle(file) ==
    LET outcome == ProcessFile(file, now)
    IN  IF overlap.on /\ ~outcome.threw
        THEN [overlap EXCEPT !.batches = Append(@, outcome.v)]
        ELSE overlap

\* the number of elements of s that satisfy P
CountIf(s, P(_)) == Cardinality({i \in 1..Len(s) : P(s[i])})

\* calculateAnalytics: the summary the provider derives from the store
calculateAnalytics(clusterData) ==
    IF Len(clusterData) = 0
    THEN [totalClusters |-> 0, avgMemoryUsage |-> Zero, totalRuntimeHours |-> Zero,
          totalRemainingCapacityGB |-> Zero, activeClusters |-> 0,
          clustersByState |-> <<>>, clustersByName |-> <<>>]
    ELSE
    LET activeClusters == CountIf(clusterData, LAMBDA c : c.state \in {"RUNNING", "WAITING"})
        totalMB(c)     == OrZero(c.maxMemoryTotalMB)
        allocatedMB(c) == OrZero(c.maxMemoryAllocatedMB)
        \* the entries counted in the memory average, and what each adds to the total
        validMemory == Filter(clusterData, LAMBDA c : Lt(Zero, totalMB(c)))
        usage(c) == IF Le(allocatedMB(c), totalMB(c))
                    THEN Mul(Div(allocatedMB(c), totalMB(c)), Hundred)
                    ELSE Hundred
        totalMemoryUsage == SumSeq(Map(validMemory, usage))
        validMemoryEntries == Len(validMemory)
        \* (endTime - startTime) / (1000 * 60 * 60) when both are times and in order
        runtime(c) ==
            IF c.endDateTime # <<>> /\ c.creationDateTime.ok /\ c.endDateTime[1].ok
                   /\ c.endDateTime[1].t >= c.creationDateTime.t
            THEN Num(c.endDateTime[1].t - c.creationDateTime.t, MinutesInHour)
            ELSE Zero
        capacity(c) == OrZero(c.minCapacityRemainingGB)
        nonNegative == Filter(clusterData, LAMBDA c : Le(Zero, capacity(c)))
        states == {clusterData[i].state : i \in 1..Len(clusterData)}
        names  == {clusterData[i].clusterName : i \in 1..Len(clusterData)}
    IN  [totalClusters |-> Len(clusterData),
         avgMemoryUsage |-> IF validMemoryEntries > 0
                            THEN Div(totalMemoryUsage, Int2Num(validMemoryEntries))
                            ELSE Zero,
         totalRuntimeHours |-> SumSeq(Map(clusterData, runtime)),
         totalRemainingCapacityGB |-> SumSeq(Map(nonNegative, capacity)),
         activeClusters |-> activeClusters,
         clustersByState |->
             [st \in states |-> CountIf(clusterData, LAMBDA c : c.state = st)],
         clustersByName |->
             [nm \in names |-> CountIf(clusterData, LAMBDA c : c.clusterName = nm)]]

\* getRawClusterData: the map throws as soon as one toISOString throws
getRawClusterData(store) ==
    IF \E i \in 1..Len(store) :
           \/ toISOString(store[i].creationDateTime).threw
           \/ (store[i].endDateTime # <<>> /\ toISOString(store[i].endDateTime[1]).threw)
    THEN Thrown
    ELSE Ok(Map(store, LAMBDA cluster :
            [ClusterName |-> cluster.clusterName,
             ClusterId |-> cluster.clusterId,
             CreationDateTime |-> toISOString(cluster.creationDateTime).v,
             EndDateTime |-> IF cluster.endDateTime # <<>>
                             THEN toISOString(cluster.endDateTime[1]).v ELSE NoString,
             MinCapacityRemainingGB |-> OrZero(cluster.minCapacityRemainingGB),
             MinYARNMemoryAvailablePercentage |-> OrZero(cluster.minYARNMemoryAvailablePercentage),
             MaxMemoryAllocatedMB |-> OrZero(cluster.maxMemoryAllocatedMB),
             MaxMemoryTotalMB |-> OrZero(cluster.maxMemoryTotalMB),
             MaxMRUnhealthyNodes |-> OrZero(cluster.maxMRUnhealthyNodes),
             State |-> cluster.state]))

getFilteredKPIMetrics(store, filter, zone) ==
    LET rawData == getRawClusterData(store)
    IN  IF rawData.threw THEN Thrown
        ELSE Ok(calculateFilteredKPIMetrics(rawData.v, filter, zone))

(***************************************************************************)
(* Dashboard: the values its render derives from the provider (useMemo)    *)
(***************************************************************************)
\* filteredMetrics and timeSeriesData; a throw while rendering unmounts the page
Render(store, filter, zone) ==
    IF Len(store) = 0 THEN Ok([filteredMetrics |-> <<>>, timeSeriesData |-> <<>>])
    ELSE LET kpis    == getFilteredKPIMetrics(store, filter, zone)
             rawData == getRawClusterData(store)
         IN  IF kpis.threw \/ rawData.threw THEN Thrown
             ELSE Ok([filteredMetrics |-> <<kpis.v>>,
                      timeSeriesData |-> calculateDailyKPIMetrics(rawData.v, filter, zone)])

\* the provider's analytics: useMemo(() => calculateAnalytics(clusters), [clusters])
analytics == calculateAnalytics(clusters)

(***************************************************************************)
(* pages/Dashboard.tsx and components/dashboard/ClusterTable.tsx           *)
(***************************************************************************)
\* String.prototype.toLowerCase on a text of character codes ('A' is 65, 'a' is 97)
toLowerCase(text) ==
    [i \in 1..Len(text) |-> IF 65 <= text[i] /\ text[i] <= 90 THEN text[i] + 32 ELSE text[i]]

\* String.prototype.includes
includes(text, sub) ==
    \E k \in 0..(Len(text) - Len(sub)) : SubSeq(text, k + 1, k + Len(sub)) = sub

\* handleFilterChange: the list it passes to setFilteredClusters, the store
\* filtered by the chart filter, the name, the state and the search term in turn;
\* clusterName and state are "" and searchTerm is <<>> when not given
handleFilterChange(filters) ==
    LET searchLower == toLowerCase(filters.searchTerm)
        byChart(c)  == (activeFilter # <<>> /\ activeFilter[1].type = "clusterName")
                           => c.clusterName = activeFilter[1].value
        byName(c)   == filters.clusterName # "" => c.clusterName = filters.clusterName
        byState(c)  == filters.state # "" => c.state = filters.state
        bySearch(c) == filters.searchTerm # <<>> =>
                           \/ includes(toLowerCase(CharsOf(c.clusterName)), searchLower)
                           \/ includes(toLowerCase(CharsOf(c.clusterId)), searchLower)
    IN  Filter(clusters, LAMBDA c : byChart(c) /\ byName(c) /\ byState(c) /\ bySearch(c))

\* ClusterTable: Math.ceil(totalItems / itemsPerPage)
totalPages(list, perPage) == (Len(list) + perPage - 1) \div perPage

\* ClusterTable's useEffect on clusters.length: the page after the displayed list
\* became newList
PageAfter(newList) == IF Len(newList) # Len(filteredClusters) THEN 1 ELSE currentPage

\* getPageNumbers: at most 5 page buttons around the current page
getPageNumbers ==
    LET total == totalPages(filteredClusters, itemsPerPage)
    IN  IF total <= 5 THEN 1..total
        ELSE IF currentPage <= 3 THEN 1..5
        ELSE IF currentPage >= total - 2 THEN (total - 4)..total
        ELSE (currentPage - 2)..(currentPage + 2)

(***************************************************************************)
(* Inputs of the model                                                     *)
(***************************************************************************)
Zones == {0, 330}      \* UTC and UTC+05:30

\* the instant `minute` minutes after 00:00Z of the day BaseDay + dayOffset
At(dayOffset, minute) == (BaseDay + dayOffset) * MinutesInDay + minute

\* local midnight of the day BaseDay + dayOffset
LocalMidnight(dayOffset, zone) == At(dayOffset, 0) - zone

RawEntry(name, id, state, creation, end, capacity, yarn, allocated, total, unhealthy) ==
    [ClusterName |-> name, ClusterId |-> id, State |-> state,
     CreationDateTime |-> creation, EndDateTime |-> end,
     MinCapacityRemainingGB |-> capacity,
     MinYARNMemoryAvailablePercentage |-> yarn,
     MaxMemoryAllocatedMB |-> allocated,
     MaxMemoryTotalMB |-> total,
     MaxMRUnhealthyNodes |-> unhealthy]

\* uploaded entries: three that pass validation (one of them with a CreationDateTime
\* that is no date), three that lack a required field
EntryA == RawEntry("A", "j-1", "RUNNING", IsoString(At(0, 600)), NoString,
                   Int2Num(100), Int2Num(50), Int2Num(800), Int2Num(1000), Undefined)
EntryB == RawEntry("B", "j-1", "TERMINATED", IsoString(At(1, 60)), IsoString(At(1, 179)),
                   Int2Num(-50), Int2Num(20), Int2Num(1200), Int2Num(1000), Int2Num(2))
EntryBadDate == RawEntry("A", "j-3", "WAITING", BadString, NoString,
                   Int2Num(300), Int2Num(80), Int2Num(0), Int2Num(0), Int2Num(0))
EntryNoId    == [EntryA EXCEPT !.ClusterId = Missing]
EntryNoName  == [EntryB EXCEPT !.ClusterName = ""]
EntryNoState == [EntryA EXCEPT !.State = Null]

\* EntryB is uploaded only behind a rejected entry
ValidEntries   == {EntryA, EntryBadDate}
RejectedEntries == {EntryNoId, EntryNoName, EntryNoState}

SeqsUpTo(S, n) == UNION {[1..m -> S] : m \in 0..n}

\* arrays whose entries all pass validation
ValidBatches == SeqsUpTo(ValidEntries, MaxBatch)

\* arrays with a rejected entry: valid entries before it, and possibly a valid or
\* another rejected entry after it
RejectedBatches ==
    {es \in {pre \o <<x>> \o post : pre \in SeqsUpTo({EntryA}, MaxBatch - 1),
                                     x \in RejectedEntries,
                                     post \in {<<>>, <<EntryB>>, <<EntryNoState>>}} :
        Len(es) <= MaxBatch}

\* what the FileReader and JSON.parse can deliver for one file
Files ==
    {[kind |-> "unreadable", entries |-> <<>>], [kind |-> "malformed", entries |-> <<>>]}
    \cup {[kind |-> "array", entries |-> es] : es \in ValidBatches \cup RejectedBatches}
    \cup {[kind |-> "object", entries |-> <<e>>] : e \in ValidEntries \cup RejectedEntries}

\* the Dashboard's date ranges: the default daily view and a one-day custom range
DateFilters(zone) ==
    {[type |-> "daily",
      startDate |-> ValidDate(LocalMidnight(-30, zone)),
      endDate |-> ValidDate(LocalMidnight(2, zone) - 1)],
     [type |-> "custom",
      startDate |-> ValidDate(LocalMidnight(1, zone)),
      endDate |-> ValidDate(LocalMidnight(2, zone) - 1)]}

DefaultDateFilter(zone) == CHOOSE f \in DateFilters(zone) : f.type = "daily"

(***************************************************************************)
(* Specification of the provider                                           *)
(***************************************************************************)
IdleCall == [fn |-> "none", done |-> FALSE]

Init ==
    /\ UseStateDashboard
    /\ overlap = NoOverlap
    /\ clusters = <<>>
    /\ isLoading = FALSE
    /\ error = NoError
    /\ pending = 0
    /\ now = 0
    /\ tz \in Zones
    /\ dateFilter = DefaultDateFilter(tz)
    /\ rendered = Render(<<>>, dateFilter, tz)
    /\ call = IdleCall
    /\ data = <<>>
    /\ daily = IdleCall
    /\ dailyMetrics = <<>>
    /\ result = IdleCall

Others == UNCHANGED <<tz, call, data, daily, dailyMetrics, result, dashboardVars, tableVars>>

\* processJsonFile up to its await: setIsLoading(true), setError(null), start the read
StartUpload ==
    /\ pending < MaxPending
    /\ pending' = pending + 1
    /\ overlap' = OverlapAfterStart
    /\ isLoading' = TRUE
    /\ error' = NoError
    /\ UNCHANGED <<clusters, now, dateFilter, rendered>>
    /\ Others

\* faulty variant: the entries converted before the rejected one are appended
FinishUploadPartial(file) ==
    /\ pending > 0
    /\ LET outcome == ProcessFile(file, now)
           kept == IF outcome.threw /\ outcome.err.index > 0
                   THEN [i \in 1..outcome.err.index |->
                            convertRawDataToCluster(file.entries[i], i - 1, now)]
                   ELSE outcome.v
       IN  /\ Len(clusters) + Len(kept) <= MaxStore
           /\ clusters' = clusters \o kept
           /\ error' = IF outcome.threw THEN outcome.err ELSE error
    /\ pending' = pending - 1
    /\ overlap' = OverlapAfterSettle(file)
    /\ isLoading' = FALSE
    /\ rendered' = IF clusters' = clusters THEN rendered ELSE Render(clusters', dateFilter, tz)
    /\ UNCHANGED <<now, dateFilter>>
    /\ Others

\* faulty variant: an entry whose ClusterId is already stored is not appended
FinishUploadDeduplicating(file) ==
    /\ pending > 0
    /\ LET outcome == ProcessFile(file, now)
           fresh == Filter(outcome.v, LAMBDA c :
                        \A i \in 1..Len(clusters) : clusters[i].clusterId # c.clusterId)
       IN  /\ Len(clusters) + Len(outcome.v) <= MaxStore
           /\ clusters' = IF outcome.threw THEN clusters ELSE clusters \o fresh
           /\ error' = IF outcome.threw THEN outcome.err ELSE error
    /\ pending' = pending - 1
    /\ overlap' = OverlapAfterSettle(file)
    /\ isLoading' = FALSE
    /\ rendered' = IF clusters' = clusters THEN rendered ELSE Render(clusters', dateFilter, tz)
    /\ UNCHANGED <<now, dateFilter>>
    /\ Others

\* faulty variant: the batch is appended to the store that the callback closed over
\* when it was created (useCallback with no dependencies: the empty store),
\* setClusters([...clusters, ...newClusters])
FinishUploadStaleClosure(file) ==
    /\ pending > 0
    /\ LET outcome == ProcessFile(file, now)
       IN  /\ Len(clusters) + Len(outcome.v) <= MaxStore
           /\ clusters' = IF outcome.threw THEN clusters ELSE <<>> \o outcome.v
           /\ error' = IF outcome.threw THEN outcome.err ELSE error
    /\ pending' = pending - 1
    /\ overlap' = OverlapAfterSettle(file)
    /\ isLoading' = FALSE
    /\ rendered' = IF clusters' = clusters THEN rendered ELSE Render(clusters', dateFilter, tz)
    /\ UNCHANGED <<now, dateFilter>>
    /\ Others

\* processJsonFile after the read settled: parse, validate, convert, append; or
\* catch (setError) and rethrow; finally setIsLoading(false)
FinishUpload(file) ==
    /\ pending > 0
    /\ LET outcome == ProcessFile(file, now)
       IN  /\ Len(clusters) + Len(outcome.v) <= MaxStore
           /\ clusters' = IF outcome.threw THEN clusters ELSE clusters \o outcome.v
           /\ error' = IF outcome.threw THEN outcome.err ELSE error
    /\ pending' = pending - 1
    /\ overlap' = OverlapAfterSettle(file)
    /\ isLoading' = FALSE
    /\ rendered' = IF clusters' = clusters THEN rendered ELSE Render(clusters', dateFilter, tz)
    /\ UNCHANGED <<now, dateFilter>>
    /\ Others

clearData ==
    /\ clusters' = <<>>
    /\ error' = NoError
    /\ rendered' = Render(clusters', dateFilter, tz)
    /\ overlap' = NoOverlap
    /\ UNCHANGED <<isLoading, pending, now, dateFilter>>
    /\ Others

refetch ==
    /\ error' = NoError
    /\ UNCHANGED <<clusters, isLoading, pending, overlap, now, dateFilter, rendered>>
    /\ Others

handleDateFilterChange(filter) ==
    /\ dateFilter' = filter
    /\ rendered' = Render(clusters, dateFilter', tz)
    /\ UNCHANGED <<clusters, isLoading, error, pending, overlap, now>>
    /\ Others

\* the millisecond clock advances
Tick ==
    /\ now < MaxClock
    /\ now' = now + 1
    /\ UNCHANGED <<clusters, isLoading, error, pending, overlap, dateFilter, rendered>>
    /\ Others

Next ==
    \/ StartUpload
    \/ \E file \in Files : FinishUpload(file)
    \/ clearData
    \/ refetch
    \/ \E filter \in DateFilters(tz) : handleDateFilterChange(filter)
    \/ Tick

Spec == Init /\ [][Next]_vars

(***************************************************************************)
(* Specification of the scalar metric functions                            *)
(***************************************************************************)
\* memory sizes: negative, zero, fractional, allocated above and below total, not a number
MemoryValues ==
    {Int2Num(-5), Zero, Num(1, 2), Int2Num(1), Int2Num(800), Int2Num(1000), Int2Num(1200),
     NaN, Undefined}

\* KPI values of the current and of the previous week
CurrentValues  == {Zero, Int2Num(5)}
PreviousValues == {Zero, Int2Num(4), Num(-5, 2)}
CurrentCounts  == {0, 3}
PreviousCounts == {0, 2}

KPIs(memory, yarn, runtime, capacity, count) ==
    [avgMemoryUsagePercent |-> memory,
     avgYARNMemoryAvailablePercent |-> yarn,
     avgRuntimeHours |-> runtime,
     avgRemainingCapacityGB |-> capacity,
     clusterCount |-> count]

KPIInputs(values, counts) ==
    {KPIs(m, y, r, c, n) : m \in values, y \in values, r \in values, c \in values, n \in counts}

\* the calls to make: the function and its arguments, not yet applied
MetricCalls ==
    {[fn |-> "calculateMemoryUsagePercent", allocatedMB |-> a, totalMB |-> t,
      done |-> FALSE, out |-> Zero] : a \in MemoryValues, t \in MemoryValues}
    \cup {[fn |-> "calculateKPIDeltas", current |-> c, previous |-> p,
           done |-> FALSE, out |-> ZeroKPIs] :
              c \in KPIInputs(CurrentValues, CurrentCounts),
              p \in KPIInputs(PreviousValues, PreviousCounts)}

InitMetric ==
    /\ UseStateDashboard
    /\ overlap = NoOverlap
    /\ clusters = <<>>
    /\ isLoading = FALSE
    /\ error = NoError
    /\ pending = 0
    /\ now = 0
    /\ tz = 0
    /\ dateFilter = DefaultDateFilter(tz)
    /\ rendered = Render(<<>>, dateFilter, tz)
    /\ call \in MetricCalls
    /\ data = <<>>
    /\ daily = IdleCall
    /\ dailyMetrics = <<>>
    /\ result = IdleCall

CallMemoryUsagePercent ==
    /\ call.fn = "calculateMemoryUsagePercent" /\ ~call.done
    /\ call' = [call EXCEPT !.done = TRUE,
                            !.out = calculateMemoryUsagePercent(call.allocatedMB, call.totalMB)]
    /\ UNCHANGED <<providerVars, dashboardVars, tableVars, tz, aggVars, dailyVars>>

CallKPIDeltas ==
    /\ call.fn = "calculateKPIDeltas" /\ ~call.done
    /\ call' = [call EXCEPT !.done = TRUE,
                            !.out = calculateKPIDeltas(call.current, call.previous)]
    /\ UNCHANGED <<providerVars, dashboardVars, tableVars, tz, aggVars, dailyVars>>

NextMetric ==
    \/ CallMemoryUsagePercent
    \/ CallKPIDeltas

SpecMetric == InitMetric /\ [][NextMetric]_vars

(***************************************************************************)
(* Specification of the daily aggregation                                  *)
(***************************************************************************)
Record(name, creation, end, allocated, total, capacity, yarn, unhealthy) ==
    [ClusterName |-> name, ClusterId |-> "j-0", State |-> "TERMINATED",
     CreationDateTime |-> creation, EndDateTime |-> end,
     MinCapacityRemainingGB |-> capacity,
     MinYARNMemoryAvailablePercentage |-> yarn,
     MaxMemoryAllocatedMB |-> allocated,
     MaxMemoryTotalMB |-> total,
     MaxMRUnhealthyNodes |-> unhealthy]

\* "A": 80 % used, still running
RecA80 == Record("A", IsoString(At(0, 600)), NoString,
                 Int2Num(800), Int2Num(1000), Int2Num(100), Int2Num(50), Zero)
\* "B", the same day: allocated above total, a 59-minute run
RecB120 == Record("B", IsoString(At(0, 660)), IsoString(At(0, 719)),
                  Int2Num(1200), Int2Num(1000), Int2Num(300), Int2Num(20), Int2Num(2))
\* "A" again that day: a 25-hour run
RecA25 == Record("A", IsoString(At(0, 700)), IsoString(At(1, 760)),
                 Int2Num(250), Int2Num(1000), Int2Num(250), Int2Num(35), Int2Num(1))
\* "A" the next day: a 119-minute run, negative capacity, no unhealthy-node value
RecANextDay == Record("A", IsoString(At(1, 60)), IsoString(At(1, 179)),
                      Int2Num(500), Int2Num(1000), Int2Num(-50), Int2Num(80), Undefined)
\* "B" late in the evening (the next local day east of UTC): ends before it starts
RecBReversed == Record("B", IsoString(At(1, 1200)), IsoString(At(0, 600)),
                       Int2Num(300), Zero, Int2Num(40), Int2Num(10), Int2Num(4))
\* "C" created three days earlier, ends inside the first day
RecCEarly == Record("C", IsoString(At(-3, 0)), IsoString(At(0, 30)),
                    Int2Num(1000), Int2Num(1000), Int2Num(500), Int2Num(100), Zero)
\* the creation time does not parse
RecBadCreation == Record("C", BadString, IsoString(At(0, 700)),
                         Int2Num(100), Int2Num(1000), Int2Num(200), Int2Num(60), Zero)
\* the end time does not parse, negative allocation
RecBadEnd == Record("B", IsoString(At(0, 600)), BadString,
                    Int2Num(-5), Int2Num(1000), Int2Num(150), Int2Num(30), Int2Num(3))

\* "D" created in the last minute of the first day (UTC), still running
RecLastMinute == Record("D", IsoString(At(0, 1439)), NoString,
                        Int2Num(600), Int2Num(1000), Int2Num(-20), Int2Num(45), Zero)

RecordPool ==
    {RecA80, RecB120, RecA25, RecANextDay, RecBReversed, RecCEarly, RecBadCreation, RecBadEnd,
     RecLastMinute}

\* FilterOptions: a cluster name or none, and a range of whole days given by an
\* instant of its first and of its last day, or no range
DayRange(name, firstDay, lastDay) ==
    [clusterName |-> name,
     startDate |-> <<ValidDate(At(firstDay, 600))>>,
     endDate |-> <<ValidDate(At(lastDay, 660))>>]

FilterInputs ==
    {DayRange(name, w[1], w[2]) : name \in {"", "A"}, w \in {<<0, 0>>, <<1, 1>>, <<-3, -1>>}}
    \cup {[clusterName |-> "B", startDate |-> <<>>, endDate |-> <<>>]}

InitAgg ==
    /\ UseStateDashboard
    /\ overlap = NoOverlap
    /\ clusters = <<>>
    /\ isLoading = FALSE
    /\ error = NoError
    /\ pending = 0
    /\ now = 0
    /\ tz \in Zones
    /\ dateFilter = DefaultDateFilter(tz)
    /\ rendered = Render(<<>>, dateFilter, tz)
    /\ call = IdleCall
    /\ data \in SeqsUpTo(RecordPool, MaxRecords)
    /\ daily = IdleCall
    /\ dailyMetrics = <<>>
    /\ result = IdleCall

CallAggregateDataByDay ==
    /\ ~daily.done
    /\ daily' = [fn |-> "aggregateDataByDay", done |-> TRUE,
                 out |-> aggregateDataByDay(data, tz)]
    /\ UNCHANGED <<providerVars, dashboardVars, tableVars, tz, metricVars, data, dailyVars>>

\* the runtime of every record, as the table and the drill-down compute it
CallRuntimeHours ==
    /\ ~daily.done
    /\ daily' = [fn |-> "calculateRuntimeHours", done |-> TRUE,
                 out |-> Map(data, LAMBDA r :
                            calculateRuntimeHours(r.CreationDateTime, r.EndDateTime))]
    /\ UNCHANGED <<providerVars, dashboardVars, tableVars, tz, metricVars, data, dailyVars>>

CallFilterEMRData(filters) ==
    /\ ~daily.done
    /\ daily' = [fn |-> "filterEMRData", done |-> TRUE, filters |-> filters,
                 out |-> filterEMRData(data, filters, tz)]
    /\ UNCHANGED <<providerVars, dashboardVars, tableVars, tz, metricVars, data, dailyVars>>

\* DateFilterOptions: custom ranges of whole days
DailyRanges ==
    {[type |-> "custom",
      startDate |-> ValidDate(At(w[1], 600)),
      endDate |-> ValidDate(At(w[2], 660))] : w \in {<<0, 0>>, <<1, 1>>, <<-3, -1>>}}

CallDailyKPIMetrics(filter) ==
    /\ ~daily.done
    /\ daily' = [fn |-> "calculateDailyKPIMetrics", done |-> TRUE, filter |-> filter,
                 out |-> calculateDailyKPIMetrics(data, filter, tz)]
    /\ UNCHANGED <<providerVars, dashboardVars, tableVars, tz, metricVars, data, dailyVars>>

CallGetDateRange ==
    /\ ~daily.done
    /\ daily' = [fn |-> "getDateRange", done |-> TRUE, out |-> getDateRange(data, now)]
    /\ UNCHANGED <<providerVars, dashboardVars, tableVars, tz, metricVars, data, dailyVars>>

NextAgg ==
    \/ CallAggregateDataByDay
    \/ CallRuntimeHours
    \/ \E filters \in FilterInputs : CallFilterEMRData(filters)
    \/ \E filter \in DailyRanges : CallDailyKPIMetrics(filter)
    \/ CallGetDateRange

SpecAgg == InitAgg /\ [][NextAgg]_vars

(***************************************************************************)
(* Specification of the provider with one upload of cluster records        *)
(***************************************************************************)
\* the file being read holds the records of `data`
UploadedFile == [kind |-> "array", entries |-> data]

\* processJsonFile has started reading the file
InitUpload ==
    /\ UseStateDashboard
    /\ overlap = NoOverlap
    /\ clusters = <<>>
    /\ isLoading = TRUE
    /\ error = NoError
    /\ pending = 1
    /\ now = 0
    /\ tz \in Zones
    /\ dateFilter = DefaultDateFilter(tz)
    /\ rendered = Render(<<>>, dateFilter, tz)
    /\ call = IdleCall
    /\ data \in SeqsUpTo(RecordPool, MaxStore)
    /\ daily = IdleCall
    /\ dailyMetrics = <<>>
    /\ result = IdleCall

NextUpload ==
    \/ FinishUpload(UploadedFile)
    \/ \E filter \in DateFilters(tz) : handleDateFilterChange(filter)

SpecUpload == InitUpload /\ [][NextUpload]_vars

(***************************************************************************)
(* Specification of the analytics over daily buckets                       *)
(***************************************************************************)
ClusterNames == <<"n1", "n2", "n3", "n4", "n5", "n6", "n7", "n8", "n9", "n10",
                  "n11", "n12", "n13", "n14", "n15", "n16", "n17", "n18", "n19", "n20">>

Profiles == 1..3

\* the bucket of the day BaseDay + i in data set p: in set 1 cluster "A" recurs every
\* day, in set 2 every day has a cluster of its own, in set 3 three names rotate
BucketAt(p, i) ==
    LET names == IF p = 1 THEN (IF i % 2 = 0 THEN <<"A", "B">> ELSE <<"A">>)
                 ELSE IF p = 2 THEN <<ClusterNames[(i % 20) + 1]>>
                 ELSE <<ClusterNames[(i % 3) + 1], "A">>
    IN  [date |-> FormatDay(ValidDate(At(i, 720)), 0).v,
         avgMemoryUsagePercent |-> Num((29 * i + 7 * p) % 201, 2),
         avgYARNMemoryAvailablePercent |-> Int2Num((17 * i + 5 * p) % 101),
         avgRuntimeHours |-> Num(i % 4, p),
         avgRemainingCapacityGB |-> Int2Num(((53 * i + 11 * p) % 400) - 50),
         clusterCount |-> Len(names),
         clusters |-> names,
         avgUnhealthyNodes |-> Num(i % 3, p)]

Series(p, n) == [i \in 1..n |-> BucketAt(p, i - 1)]

\* the order of the caller's array: ascending (as aggregateDataByDay returns it),
\* descending, rotated, or odd positions before even ones
Arrange(s, order) ==
    LET n == Len(s)
    IN  IF order = "asc" THEN s
        ELSE IF order = "desc" THEN [i \in 1..n |-> s[n + 1 - i]]
        ELSE IF order = "rot" THEN [i \in 1..n |-> s[((i - 1 + n \div 2) % n) + 1]]
        ELSE [i \in 1..n |-> IF i <= (n + 1) \div 2 THEN s[2 * i - 1]
                             ELSE s[2 * (i - (n + 1) \div 2)]]

SeriesInputs ==
    {Arrange(Series(p, n), order) :
        p \in Profiles, n \in 0..MaxBuckets, order \in {"asc", "desc", "rot", "mix"}}

\* single buckets around the thresholds of the health score
GridBucket(usage, yarn, capacity, unhealthy) ==
    [date |-> FormatDay(ValidDate(At(0, 720)), 0).v,
     avgMemoryUsagePercent |-> usage,
     avgYARNMemoryAvailablePercent |-> yarn,
     avgRuntimeHours |-> Zero,
     avgRemainingCapacityGB |-> capacity,
     clusterCount |-> 1,
     clusters |-> <<"A">>,
     avgUnhealthyNodes |-> unhealthy]

UsageGrid     == {Zero, Int2Num(80), Int2Num(85), Int2Num(100)}
YarnGrid      == {Zero, Int2Num(30), Int2Num(100)}
CapacityGrid  == {Zero, Int2Num(200), Int2Num(500)}
UnhealthyGrid == {Zero, Num(1, 2), Int2Num(3), Int2Num(60)}

GridInputs ==
    {<<GridBucket(u, y, c, n)>> :
        u \in UsageGrid, y \in YarnGrid, c \in CapacityGrid, n \in UnhealthyGrid}

InitDaily ==
    /\ UseStateDashboard
    /\ overlap = NoOverlap
    /\ clusters = <<>>
    /\ isLoading = FALSE
    /\ error = NoError
    /\ pending = 0
    /\ now = 0
    /\ tz = 0
    /\ dateFilter = DefaultDateFilter(tz)
    /\ rendered = Render(<<>>, dateFilter, tz)
    /\ call = IdleCall
    /\ data = <<>>
    /\ daily = IdleCall
    /\ dailyMetrics \in SeriesInputs \cup GridInputs
    /\ result = IdleCall

\* calculateWeeklyKPIs sorts the array it is given
CallWeeklyKPIs ==
    /\ result' = [fn |-> "calculateWeeklyKPIs", done |-> TRUE,
                  out |-> calculateWeeklyKPIs(dailyMetrics)]
    /\ dailyMetrics' = WeeklyKPIsSortInPlace(dailyMetrics)
    /\ UNCHANGED <<providerVars, dashboardVars, tableVars, tz, metricVars, aggVars>>

CallPreviousWeeklyKPIs ==
    /\ result' = [fn |-> "calculatePreviousWeeklyKPIs", done |-> TRUE,
                  out |-> calculatePreviousWeeklyKPIs(dailyMetrics)]
    /\ UNCHANGED <<providerVars, dashboardVars, tableVars, tz, metricVars, aggVars, dailyMetrics>>

CallHealthSummary ==
    /\ result' = [fn |-> "computeHealthSummary", done |-> TRUE,
                  out |-> computeHealthSummary(dailyMetrics)]
    /\ UNCHANGED <<providerVars, dashboardVars, tableVars, tz, metricVars, aggVars, dailyMetrics>>

\* the horizons asked for: none, a few days, the default of 7
Horizons == {0, 3, 7}

CallForecastMemoryUsage(horizonDays) ==
    /\ result' = [fn |-> "forecastMemoryUsage", done |-> TRUE, horizonDays |-> horizonDays,
                  out |-> forecastMemoryUsage(dailyMetrics, horizonDays)]
    /\ UNCHANGED <<providerVars, dashboardVars, tableVars, tz, metricVars, aggVars, dailyMetrics>>

NextDaily ==
    \/ CallWeeklyKPIs
    \/ CallPreviousWeeklyKPIs
    \/ CallHealthSummary
    \/ \E horizonDays \in Horizons : CallForecastMemoryUsage(horizonDays)

SpecDaily == InitDaily /\ [][NextDaily]_vars

(***************************************************************************)
(* Specification of the weekly time series                                 *)
(***************************************************************************)
\* the local zones of the browser: the fixed offsets and the zone with daylight saving
WeeklyZones == Zones \cup {DstZone}

\* a record created at 12:00Z of the day BaseDay + dayOffset
NoonRecord(name, dayOffset, allocated, unhealthy) ==
    Record(name, IsoString(At(dayOffset, 720)), IsoString(At(dayOffset, 840)),
           Int2Num(allocated), Int2Num(1000), Int2Num(100 + dayOffset), Int2Num(50), unhealthy)

\* records of Tuesday 2024-02-27, Saturday 03-02, Sunday 03-03, Saturday 03-09,
\* Sunday 03-10 and Monday 03-11
WeeklyPool ==
    {NoonRecord("A", 0, 800, Zero), NoonRecord("B", 4, 200, Zero), NoonRecord("A", 5, 400, Zero),
     NoonRecord("B", 11, 600, Int2Num(1)), NoonRecord("C", 12, 1000, Zero),
     NoonRecord("A", 13, 100, Zero)}

\* a weekly range over all the records, and one that ends with Sunday 03-03
WeeklyFilters(zone) ==
    {[type |-> "weekly",
      startDate |-> ValidDate(At(-30, 720)),
      endDate |-> ValidDate(At(lastDay, 720))] : lastDay \in {5, 20}}

InitWeekly ==
    /\ UseStateDashboard
    /\ overlap = NoOverlap
    /\ clusters = <<>>
    /\ isLoading = FALSE
    /\ error = NoError
    /\ pending = 0
    /\ now = 0
    /\ tz \in WeeklyZones
    /\ dateFilter = DefaultDateFilter(tz)
    /\ rendered = Render(<<>>, dateFilter, tz)
    /\ call = IdleCall
    /\ data \in SeqsUpTo(WeeklyPool, MaxRecords)
    /\ daily = IdleCall
    /\ dailyMetrics = <<>>
    /\ result = IdleCall

CallWeeklyKPIMetrics(filter) ==
    /\ ~daily.done
    /\ daily' = [fn |-> "calculateWeeklyKPIMetrics", done |-> TRUE, filter |-> filter,
                 out |-> calculateWeeklyKPIMetrics(data, filter, tz)]
    /\ UNCHANGED <<providerVars, dashboardVars, tableVars, tz, metricVars, data, dailyVars>>

NextWeekly == \E filter \in WeeklyFilters(tz) : CallWeeklyKPIMetrics(filter)

SpecWeekly == InitWeekly /\ [][NextWeekly]_vars

(***************************************************************************)
(* Specification of the anomaly detection                                  *)
(***************************************************************************)
\* the bucket of the day BaseDay + i whose metrics are at the given level; the
\* YARN percentage is the same at every level
LevelBucket(i, level) ==
    [date |-> KeyOfDay(BaseDay + i),
     avgMemoryUsagePercent |-> Int2Num(10 * level),
     avgYARNMemoryAvailablePercent |-> Int2Num(50),
     avgRuntimeHours |-> Int2Num(level * level),
     avgRemainingCapacityGB |-> Int2Num(100 - 20 * level),
     clusterCount |-> 1,
     clusters |-> <<"A">>,
     avgUnhealthyNodes |-> Zero]

Levels == {0, 1, 3}

AnomalyInputs ==
    {[i \in 1..Len(ls) |-> LevelBucket(i - 1, ls[i])] : ls \in SeqsUpTo(Levels, MaxAnomalyDays)}

\* the numbers of anomalies asked for: one, the default of 3, more than there are
TopNs == {1, 3, 30}

InitAnomaly ==
    /\ UseStateDashboard
    /\ overlap = NoOverlap
    /\ clusters = <<>>
    /\ isLoading = FALSE
    /\ error = NoError
    /\ pending = 0
    /\ now = 0
    /\ tz = 0
    /\ dateFilter = DefaultDateFilter(tz)
    /\ rendered = Render(<<>>, dateFilter, tz)
    /\ call = IdleCall
    /\ data = <<>>
    /\ daily = IdleCall
    /\ dailyMetrics \in AnomalyInputs
    /\ result = IdleCall

CallDetectAnomalies(topN) ==
    /\ result' = [fn |-> "detectAnomalies", done |-> TRUE, topN |-> topN,
                  out |-> detectAnomalies(dailyMetrics, topN)]
    /\ UNCHANGED <<providerVars, dashboardVars, tableVars, tz, metricVars, aggVars, dailyMetrics>>

NextAnomaly == \E topN \in TopNs : CallDetectAnomalies(topN)

SpecAnomaly == InitAnomaly /\ [][NextAnomaly]_vars

(***************************************************************************)
(* Specification of the CSV export                                         *)
(***************************************************************************)
\* the bucket of the day BaseDay + i
ExportBucket(i, names, usage, capacity, unhealthy) ==
    [date |-> KeyOfDay(BaseDay + i),
     avgMemoryUsagePercent |-> usage,
     avgYARNMemoryAvailablePercent |-> Int2Num(50),
     avgRuntimeHours |-> Num(i, 3),
     avgRemainingCapacityGB |-> capacity,
     clusterCount |-> Len(names),
     clusters |-> names,
     avgUnhealthyNodes |-> unhealthy]

\* whole numbers, thirds, a value half way between two printed ones (1/8), a
\* negative capacity, twelve clusters, and a cluster name with a line break in it
ExportPool ==
    {ExportBucket(0, <<"A">>, Zero, Int2Num(1200), Zero),
     ExportBucket(1, <<"A", "B">>, Num(200, 3), Int2Num(-50), Num(1, 8)),
     ExportBucket(2, <<"B">>, Hundred, Num(-1, 400), Num(1, 2)),
     ExportBucket(3, <<"B", "A">>, Num(1999, 200), Num(5, 1000), Int2Num(12)),
     ExportBucket(4, <<"etl\nnightly">>, Int2Num(80), Int2Num(300), Zero),
     ExportBucket(5, <<"A", "etl\nnightly">>, Num(1, 3), Zero, Num(7, 8))}

\* arrays of different buckets, in any order
ExportInputs ==
    {s \in SeqsUpTo(ExportPool, MaxExport) : \A i, j \in 1..Len(s) : s[i] = s[j] => i = j}

InitExport ==
    /\ UseStateDashboard
    /\ overlap = NoOverlap
    /\ clusters = <<>>
    /\ isLoading = FALSE
    /\ error = NoError
    /\ pending = 0
    /\ now = 0
    /\ tz = 0
    /\ dateFilter = DefaultDateFilter(tz)
    /\ rendered = Render(<<>>, dateFilter, tz)
    /\ call = IdleCall
    /\ data = <<>>
    /\ daily = IdleCall
    /\ dailyMetrics \in ExportInputs
    /\ result = IdleCall

CallExportToCSV ==
    /\ result' = [fn |-> "exportToCSV", done |-> TRUE, out |-> exportToCSV(dailyMetrics)]
    /\ UNCHANGED <<providerVars, dashboardVars, tableVars, tz, metricVars, aggVars, dailyMetrics>>

NextExport == CallExportToCSV

SpecExport == InitExport /\ [][NextExport]_vars

(***************************************************************************)
(* Specification of the analytics of a filtered record set                 *)
(***************************************************************************)
\* date ranges: one that holds the days of every record, one that holds none
BundleFilters(zone) ==
    {[type |-> "custom",
      startDate |-> ValidDate(LocalMidnight(-30, zone)),
      endDate |-> ValidDate(LocalMidnight(3, zone) - 1)],
     [type |-> "custom",
      startDate |-> ValidDate(LocalMidnight(10, zone)),
      endDate |-> ValidDate(LocalMidnight(12, zone) - 1)]}

InitBundle ==
    /\ UseStateDashboard
    /\ overlap = NoOverlap
    /\ clusters = <<>>
    /\ isLoading = FALSE
    /\ error = NoError
    /\ pending = 0
    /\ now = 0
    /\ tz \in Zones
    /\ dateFilter = DefaultDateFilter(tz)
    /\ rendered = Render(<<>>, dateFilter, tz)
    /\ call = IdleCall
    /\ data \in SeqsUpTo(RecordPool, MaxBundleRecords)
    /\ daily = IdleCall
    /\ dailyMetrics = <<>>
    /\ result = IdleCall

\* the KPIs and the daily buckets of the records in the range, and the analytics
\* of these buckets
CallAnalyticsBundle(filter) ==
    /\ ~daily.done
    /\ LET buckets == aggregateDataByDay(filterEMRData(data, DateOnly(filter), tz), tz)
       IN  /\ daily' = [fn |-> "calculateFilteredKPIMetrics", done |-> TRUE,
                        filter |-> filter, buckets |-> buckets,
                        out |-> calculateFilteredKPIMetrics(data, filter, tz)]
           /\ dailyMetrics' = WeeklyKPIsSortInPlace(buckets)
           /\ result' = [fn |-> "computeAnalyticsBundle", done |-> TRUE,
                         current |-> calculateWeeklyKPIs(buckets),
                         out |-> computeAnalyticsBundle(buckets)]
    /\ UNCHANGED <<providerVars, dashboardVars, tableVars, tz, metricVars, data>>

NextBundle == \E filter \in BundleFilters(tz) : CallAnalyticsBundle(filter)

SpecBundle == InitBundle /\ [][NextBundle]_vars

(***************************************************************************)
(* Specification of the Dashboard page with its cluster table              *)
(***************************************************************************)
States == <<"RUNNING", "TERMINATED", "WAITING">>

\* the i-th uploaded entry: the names alternate, the ids alternate in pairs, the
\* states rotate
DashboardEntry(i) ==
    RawEntry(IF i % 2 = 0 THEN "A" ELSE "B",
             IF (i \div 2) % 2 = 0 THEN "j-1" ELSE "j-3",
             States[(i % 3) + 1],
             IsoString(At(0, 600)), NoString,
             Int2Num(100), Int2Num(50), Int2Num(800), Int2Num(1000), Zero)

\* the store after the upload of one file of n entries at time 0
StoreOf(n) == [i \in 1..n |-> convertRawDataToCluster(DashboardEntry(i - 1), i - 1, 0)]

\* no record, a few, and two names of more than one page of 10 each
StoreSizes == {0, 3, 22}

\* what is typed into the search box: nothing, 'a', 'J-3', 'x'
SearchTerms == {<<>>, <<97>>, <<74, 45, 51>>, <<120>>}

\* the page sizes offered (of 10, 25, 50, 100)
PageSizes == {10, 25}

\* the page is mounted and its effect has copied the store into the displayed list
InitDashboard ==
    /\ clusters \in {StoreOf(n) : n \in StoreSizes}
    /\ isLoading = FALSE
    /\ error = NoError
    /\ pending = 0
    /\ overlap = NoOverlap
    /\ now = 0
    /\ tz = 0
    /\ dateFilter = DefaultDateFilter(tz)
    /\ rendered = Render(clusters, dateFilter, tz)
    /\ call = IdleCall
    /\ data = <<>>
    /\ daily = IdleCall
    /\ dailyMetrics = <<>>
    /\ result = IdleCall
    /\ filteredClusters = clusters
    /\ selectedClusterName = <<>>
    /\ activeFilter = <<>>
    /\ searchTerm = <<>>
    /\ stateFilter = ""
    /\ currentPage = 1
    /\ itemsPerPage = 10

NoDashboardCall == UNCHANGED <<tz, call, data, daily, dailyMetrics, result>>
StoreUnchanged  == UNCHANGED <<clusters, isLoading, error, pending, overlap, now, dateFilter,
                                rendered>>

\* ClusterTable.handleSearchChange
handleSearchChange(value) ==
    /\ searchTerm' = value
    /\ currentPage' = 1
    /\ filteredClusters' =
           handleFilterChange([clusterName |-> "", searchTerm |-> value, state |-> stateFilter])
    /\ UNCHANGED <<selectedClusterName, activeFilter, stateFilter, itemsPerPage>>
    /\ StoreUnchanged /\ NoDashboardCall

\* ClusterTable.handleStateFilterChange: 'all' or a state of the displayed list
handleStateFilterChange(value) ==
    /\ value = "all" \/ \E i \in 1..Len(filteredClusters) : filteredClusters[i].state = value
    /\ LET state == IF value = "all" THEN "" ELSE value
       IN  /\ stateFilter' = state
           /\ filteredClusters' =
                  handleFilterChange([clusterName |-> "", searchTerm |-> searchTerm,
                                      state |-> state])
    /\ currentPage' = 1
    /\ UNCHANGED <<selectedClusterName, activeFilter, searchTerm, itemsPerPage>>
    /\ StoreUnchanged /\ NoDashboardCall

\* ClusterTable.handleItemsPerPageChange
handleItemsPerPageChange(value) ==
    /\ itemsPerPage' = value
    /\ currentPage' = 1
    /\ UNCHANGED <<dashboardVars, searchTerm, stateFilter>>
    /\ StoreUnchanged /\ NoDashboardCall

\* the pagination buttons, rendered when there is more than one page
PaginationShown ==
    Len(filteredClusters) > 0 /\ totalPages(filteredClusters, itemsPerPage) > 1

SetCurrentPage(page) ==
    /\ currentPage' = page
    /\ UNCHANGED <<dashboardVars, searchTerm, stateFilter, itemsPerPage>>
    /\ StoreUnchanged /\ NoDashboardCall

PaginationFirst ==
    PaginationShown /\ currentPage # 1 /\ SetCurrentPage(1)

PaginationPrevious ==
    PaginationShown /\ currentPage # 1
        /\ SetCurrentPage(IF currentPage - 1 > 1 THEN currentPage - 1 ELSE 1)

PaginationPage(pageNum) ==
    PaginationShown /\ pageNum \in getPageNumbers /\ SetCurrentPage(pageNum)

PaginationNext ==
    LET total == totalPages(filteredClusters, itemsPerPage)
    IN  PaginationShown /\ currentPage # total
            /\ SetCurrentPage(IF total < currentPage + 1 THEN total ELSE currentPage + 1)

PaginationLast ==
    LET total == totalPages(filteredClusters, itemsPerPage)
    IN  PaginationShown /\ currentPage # total /\ SetCurrentPage(total)

\* Dashboard.handleChartFilter with a segment or bar of a chart, which shows the
\* names of the store: the same filter again resets it
handleChartFilter(type, value) ==
    /\ \E i \in 1..Len(clusters) : clusters[i].clusterName = value
    /\ IF activeFilter # <<>> /\ activeFilter[1].type = type /\ activeFilter[1].value = value
       THEN /\ activeFilter' = <<>>
            /\ selectedClusterName' = <<>>
            /\ filteredClusters' = clusters
       ELSE /\ activeFilter' = <<[type |-> type, value |-> value]>>
            /\ IF type = "clusterName"
               THEN /\ selectedClusterName' = <<value>>
                    /\ filteredClusters' = Filter(clusters, LAMBDA c : c.clusterName = value)
               ELSE UNCHANGED <<selectedClusterName, filteredClusters>>
    /\ currentPage' = PageAfter(filteredClusters')
    /\ UNCHANGED <<searchTerm, stateFilter, itemsPerPage>>
    /\ StoreUnchanged /\ NoDashboardCall

\* Dashboard.handleClusterClick with a cluster of the metric charts, or the
\* 'Clear Filter' link of the selected cluster
handleClusterClick(clusterName) ==
    /\ \E i \in 1..Len(clusters) : clusters[i].clusterName = clusterName
    /\ IF selectedClusterName = <<clusterName>>
       THEN /\ activeFilter' = <<>>
            /\ selectedClusterName' = <<>>
            /\ filteredClusters' = clusters
       ELSE /\ selectedClusterName' = <<clusterName>>
            /\ filteredClusters' = Filter(clusters, LAMBDA c : c.clusterName = clusterName)
            /\ activeFilter' = <<[type |-> "clusterName", value |-> clusterName]>>
    /\ currentPage' = PageAfter(filteredClusters')
    /\ UNCHANGED <<searchTerm, stateFilter, itemsPerPage>>
    /\ StoreUnchanged /\ NoDashboardCall

\* Dashboard.clearFilters, shown while a chart filter is active
clearFilters ==
    /\ activeFilter # <<>>
    /\ activeFilter' = <<>>
    /\ selectedClusterName' = <<>>
    /\ dateFilter' = DefaultDateFilter(tz)
    /\ filteredClusters' = clusters
    /\ rendered' = Render(clusters, dateFilter', tz)
    /\ currentPage' = PageAfter(filteredClusters')
    /\ UNCHANGED <<searchTerm, stateFilter, itemsPerPage>>
    /\ UNCHANGED <<clusters, isLoading, error, pending, overlap, now>>
    /\ NoDashboardCall

\* the 'clear data' button: clearData() of the provider, the chart filter reset,
\* and the effect that copies the store into the displayed list
ClearDataClick ==
    /\ ~isLoading /\ Len(clusters) # 0
    /\ clusters' = <<>>
    /\ error' = NoError
    /\ activeFilter' = <<>>
    /\ selectedClusterName' = <<>>
    /\ filteredClusters' = clusters'
    /\ rendered' = Render(clusters', dateFilter, tz)
    /\ currentPage' = PageAfter(filteredClusters')
    /\ UNCHANGED <<searchTerm, stateFilter, itemsPerPage>>
    /\ overlap' = NoOverlap
    /\ UNCHANGED <<isLoading, pending, now, dateFilter>>
    /\ NoDashboardCall

\* an upload of one more entry, from the click to the settled processJsonFile, a
\* tick of the clock later; the effect copies the store into the displayed list
UploadEntry ==
    /\ now < MaxDashboardUploads
    /\ now' = now + 1
    /\ LET file == [kind |-> "array", entries |-> <<DashboardEntry(Len(clusters))>>]
       IN  clusters' = clusters \o ProcessFile(file, now').v
    /\ error' = NoError
    /\ filteredClusters' = clusters'
    /\ rendered' = Render(clusters', dateFilter, tz)
    /\ currentPage' = PageAfter(filteredClusters')
    /\ UNCHANGED <<selectedClusterName, activeFilter, searchTerm, stateFilter, itemsPerPage>>
    /\ UNCHANGED <<isLoading, pending, overlap, dateFilter>>
    /\ NoDashboardCall

\* the filter changes of the table and the chart clicks
NextDashboardFilters ==
    \/ \E value \in SearchTerms : handleSearchChange(value)
    \/ \E value \in {"all"} \cup Range(States) : handleStateFilterChange(value)
    \/ \E value \in {"A", "B"} : handleChartFilter("clusterName", value)

SpecDashboardFilters == InitDashboard /\ [][NextDashboardFilters]_vars

NextDashboard ==
    \/ NextDashboardFilters
    \/ \E clusterName \in {"A", "B"} : handleClusterClick(clusterName)
    \/ clearFilters
    \/ ClearDataClick
    \/ UploadEntry
    \/ \E value \in PageSizes : handleItemsPerPageChange(value)
    \/ PaginationFirst
    \/ PaginationPrevious
    \/ \E pageNum \in 1..5 : PaginationPage(pageNum)
    \/ PaginationNext
    \/ PaginationLast

SpecDashboard == InitDashboard /\ [][NextDashboard]_vars

(***************************************************************************)
(* Properties                                                              *)
(***************************************************************************)
\* a required string property that is missing, null or empty
Absent(str) == str = Missing \/ str = Null \/ str = ""

\* a file that processJsonFile must reject: unreadable, malformed JSON, an empty
\* array, or an entry without ClusterName, ClusterId or State
FileFails(file) ==
    \/ file.kind = "unreadable"
    \/ file.kind = "malformed"
    \/ Len(file.entries) = 0
    \/ \E i \in 1..Len(file.entries) :
           \/ Absent(file.entries[i].ClusterName)
           \/ Absent(file.entries[i].ClusterId)
           \/ Absent(file.entries[i].State)

\* C1: after any sequence of earlier uploads, a processJsonFile call that fails
\* (unreadable file, malformed JSON, empty array, or an entry missing ClusterName,
\* ClusterId or State) leaves the stored cluster list exactly as it was: no entry
\* of the failed batch is added, not even the valid ones before the invalid one.
C1_FailedUploadKeepsStore ==
    [][\A file \in Files : (FinishUpload(file) /\ FileFails(file)) => clusters' = clusters]_vars

\* C1 witness: records are stored and a later batch was rejected at its second
\* entry, behind a valid one
C1_Witness ==
    /\ Len(clusters) > 0
    /\ error.set
    /\ error.index = 1
    /\ pending = 0

\* C2 (as claimed): computing the dashboard metrics through the provider never
\* raises, whatever record set passed ingestion; a record with an unparseable
\* CreationDateTime is skipped or contributes sentinel values.
C2_RenderNeverThrows == ~rendered.threw

\* C3: calculateMemoryUsagePercent(allocatedMB, totalMB) is in [0,100] for every
\* pair of (real) numbers; it is exactly 100 when allocatedMB > totalMB >= 0 with
\* totalMB # 0, and exactly 0 when totalMB is 0.
C3_MemoryUsageClamped ==
    (/\ call.fn = "calculateMemoryUsagePercent"
     /\ call.done
     /\ call.allocatedMB.k = "num"
     /\ call.totalMB.k = "num")
    => LET a == call.allocatedMB
           t == call.totalMB
           out == call.out
       IN  /\ out.k = "num" /\ out.d > 0
           /\ 0 <= out.n /\ out.n <= 100 * out.d
           /\ (a.n * t.d > t.n * a.d /\ t.n > 0) => (out.n = 100 /\ out.d = 1)
           /\ t.n = 0 => out.n = 0

\* C3 witness: 1200 MB allocated of 1000 MB total was computed, and capped to 100
C3_Witness ==
    /\ call.fn = "calculateMemoryUsagePercent"
    /\ call.done
    /\ call.allocatedMB = Int2Num(1200)
    /\ call.totalMB = Int2Num(1000)
    /\ call.out = Int2Num(100)

\* the creation time of a record parses
Parseable(r) == r.CreationDateTime.k = "iso"

\* the local civil date <<year, month, day>> a record was created on
CreationDay(r) == CivilFromDays(LocalDay(r.CreationDateTime.t, tz))

\* the civil date written in a 'yyyy-MM-dd' key
KeyNumber(key, from, to) ==
    LET V[i \in (from - 1)..to] == IF i < from THEN 0 ELSE 10 * V[i - 1] + (key[i] - 48)
    IN  V[to]
KeyDay(key) == <<KeyNumber(key, 1, 4), KeyNumber(key, 6, 7), KeyNumber(key, 9, 10)>>

\* chronological order of civil dates
DayBefore(x, y) ==
    \/ x[1] < y[1]
    \/ x[1] = y[1] /\ x[2] < y[2]
    \/ x[1] = y[1] /\ x[2] = y[2] /\ x[3] < y[3]

\* the records of data created on the day of a bucket, in input order
RecordsOf(bucket) ==
    Filter(data, LAMBDA r : Parseable(r) /\ CreationDay(r) = KeyDay(bucket.date))

Mean(values) == Div(SumSeq(values), Int2Num(Len(values)))

\* the runtime the claim defines: whole hours from creation to end, 0 when the end is
\* absent, precedes the creation, or a timestamp does not parse
DefinedRuntime(r) ==
    IF r.CreationDateTime.k # "iso" \/ r.EndDateTime.k # "iso" THEN Zero
    ELSE IF r.EndDateTime.t < r.CreationDateTime.t THEN Zero
    ELSE Int2Num((r.EndDateTime.t - r.CreationDateTime.t) \div 60)

\* C4: calculateRuntimeHours is never negative and is exactly 0 when the end time
\* precedes the creation time, is absent, or either timestamp cannot be parsed; so
\* a record that ends before it starts contributes 0, not a negative value, to the
\* avgRuntimeHours of its daily bucket.
C4_RuntimeNeverNegative ==
    /\ (daily.fn = "calculateRuntimeHours" /\ daily.done) =>
           \A i \in 1..Len(data) :
               LET r == data[i]
                   h == daily.out[i]
               IN  /\ h.k = "num" /\ h.n >= 0
                   /\ (\/ r.EndDateTime.k # "iso"
                       \/ r.CreationDateTime.k # "iso"
                       \/ r.EndDateTime.t < r.CreationDateTime.t) => h.n = 0
    /\ (daily.fn = "aggregateDataByDay" /\ daily.done) =>
           \A i \in 1..Len(daily.out) :
               LET b == daily.out[i]
               IN  /\ b.avgRuntimeHours.n >= 0
                   /\ b.avgRuntimeHours = Mean(Map(RecordsOf(b), DefinedRuntime))

\* C4 witness: a bucket was computed from a record that ends before it starts and a
\* record of the same day that ran for a whole number of hours
C4_Witness ==
    /\ daily.fn = "aggregateDataByDay"
    /\ daily.done
    /\ \E i \in 1..Len(daily.out) :
           /\ \E j \in 1..Len(RecordsOf(daily.out[i])) :
                  RecordsOf(daily.out[i])[j] = RecBReversed
           /\ daily.out[i].avgRuntimeHours.n > 0

\* the usage the claim defines: allocated / total in percent, clamped to [0,100],
\* and 0 when the total is 0
ClampedUsage(r) ==
    LET a == r.MaxMemoryAllocatedMB
        t == r.MaxMemoryTotalMB
    IN  IF t.n = 0 THEN Zero
        ELSE LET u == Num(100 * a.n * t.d, a.d * t.n)
             IN  IF u.n < 0 THEN Zero ELSE IF u.n > 100 * u.d THEN Int2Num(100) ELSE u

\* C5: every bucket of aggregateDataByDay has avgMemoryUsagePercent equal to the
\* mean of the clamped usage of the records created that day, clusterCount equal to
\* the number of distinct ClusterName values among them, and clusters listing each
\* name once; A (800/1000) and B (1200/1000) of one day give 90 and 2.
C5_BucketMeanAndCount ==
    (daily.fn = "aggregateDataByDay" /\ daily.done) =>
        \A i \in 1..Len(daily.out) :
            LET b     == daily.out[i]
                recs  == RecordsOf(b)
                names == {recs[j].ClusterName : j \in 1..Len(recs)}
            IN  /\ b.avgMemoryUsagePercent = Mean(Map(recs, ClampedUsage))
                /\ b.clusterCount = Cardinality(names)
                /\ Len(b.clusters) = Cardinality(names)
                /\ Range(b.clusters) = names

\* C5 witness: the scenario of the claim, one bucket with mean 90 and two clusters
C5_Witness ==
    /\ daily.fn = "aggregateDataByDay"
    /\ daily.done
    /\ data = <<RecA80, RecB120>>
    /\ Len(daily.out) = 1
    /\ daily.out[1].avgMemoryUsagePercent = Int2Num(90)
    /\ daily.out[1].clusterCount = 2

\* C6: aggregateDataByDay returns exactly one bucket per distinct creation day of
\* the input, no two buckets share a date, the buckets are strictly ascending by
\* date, and every record with a parseable creation time is counted in exactly one
\* bucket, the one of its creation day.
C6_OneBucketPerDay ==
    (daily.fn = "aggregateDataByDay" /\ daily.done) =>
        LET out  == daily.out
            days == {CreationDay(data[i]) : i \in {j \in 1..Len(data) : Parseable(data[j])}}
        IN  /\ {KeyDay(out[i].date) : i \in 1..Len(out)} = days
            /\ Len(out) = Cardinality(days)
            /\ \A i, j \in 1..Len(out) : i < j =>
                   /\ out[i].date # out[j].date
                   /\ DayBefore(KeyDay(out[i].date), KeyDay(out[j].date))
            /\ \A k \in 1..Len(data) : Parseable(data[k]) =>
                   /\ Cardinality({i \in 1..Len(out) :
                                      KeyDay(out[i].date) = CreationDay(data[k])}) = 1
                   /\ \E i \in 1..Len(out) :
                          /\ KeyDay(out[i].date) = CreationDay(data[k])
                          /\ data[k].ClusterName \in Range(out[i].clusters)

\* C6 witness: the input lists a later day before an earlier one and holds a record
\* whose creation time does not parse; two buckets came out
C6_Witness ==
    /\ daily.fn = "aggregateDataByDay"
    /\ daily.done
    /\ Len(data) = 3
    /\ data[1] = RecANextDay
    /\ data[2] = RecBadCreation
    /\ data[3] = RecA80
    /\ Len(daily.out) = 2

\* the number of buckets of dailyMetrics dated later than bucket b
Rank(b) ==
    Cardinality({j \in 1..Len(dailyMetrics) :
                    DayBefore(KeyDay(b.date), KeyDay(dailyMetrics[j].date))})

\* the buckets whose rank by recency lies in lo..(hi - 1), in the order of the array
Window(lo, hi) == Filter(dailyMetrics, LAMBDA b : lo <= Rank(b) /\ Rank(b) < hi)

NamesIn(days) == UNION {Range(days[i].clusters) : i \in 1..Len(days)}

RECURSIVE SumInts(_)
SumInts(s) == IF s = <<>> THEN 0 ELSE Head(s) + SumInts(Tail(s))

\* the KPIs are those of a window of days: the mean of each metric, the number of
\* distinct names of the union; all zero for an empty window
KPIsOfWindow(kpis, days) ==
    IF Len(days) = 0
    THEN /\ kpis.avgMemoryUsagePercent = Zero
         /\ kpis.avgYARNMemoryAvailablePercent = Zero
         /\ kpis.avgRuntimeHours = Zero
         /\ kpis.avgRemainingCapacityGB = Zero
         /\ kpis.clusterCount = 0
    ELSE /\ kpis.avgMemoryUsagePercent = Mean(Map(days, LAMBDA d : d.avgMemoryUsagePercent))
         /\ kpis.avgYARNMemoryAvailablePercent =
                Mean(Map(days, LAMBDA d : d.avgYARNMemoryAvailablePercent))
         /\ kpis.avgRuntimeHours = Mean(Map(days, LAMBDA d : d.avgRuntimeHours))
         /\ kpis.avgRemainingCapacityGB = Mean(Map(days, LAMBDA d : d.avgRemainingCapacityGB))
         /\ kpis.clusterCount = Cardinality(NamesIn(days))
         /\ kpis.clusterCount <= SumInts(Map(days, LAMBDA d : d.clusterCount))
         /\ (\E i, j \in 1..Len(days) :
                i < j /\ Range(days[i].clusters) \cap Range(days[j].clusters) # {})
            => kpis.clusterCount < SumInts(Map(days, LAMBDA d : d.clusterCount))

\* C7: calculateWeeklyKPIs averages each metric over the 7 most recent buckets by
\* date and calculatePreviousWeeklyKPIs over the 8th to 14th most recent; in both,
\* clusterCount is the number of distinct names of the window's days (never above
\* the sum of the per-day counts, below it when a name recurs), and an empty window
\* yields all-zero KPIs.
C7_TrailingWeekKPIs ==
    /\ (result.fn = "calculateWeeklyKPIs" /\ result.done)
           => KPIsOfWindow(result.out, Window(0, 7))
    /\ (result.fn = "calculatePreviousWeeklyKPIs" /\ result.done)
           => KPIsOfWindow(result.out, Window(7, 14))

\* C7 witness: the previous week of 15 buckets given oldest first was computed, a
\* name recurring in it
C7_Witness ==
    /\ result.fn = "calculatePreviousWeeklyKPIs"
    /\ result.done
    /\ Len(dailyMetrics) = 15
    /\ Rank(dailyMetrics[1]) = 14
    /\ result.out.clusterCount > 0
    /\ result.out.clusterCount < SumInts(Map(Window(7, 14), LAMBDA d : d.clusterCount))

\* the delta the claim defines for one field: current c, previous p, delta o
DeltaRule(c, p, o) ==
    /\ o.k = "num" /\ o.d > 0
    /\ IF p.n # 0
       THEN o.n * Abs(p.n) * c.d = 100 * (c.n * p.d - p.n * c.d) * o.d
       ELSE IF c.n = 0 THEN o.n = 0 ELSE (o.n = 100 /\ o.d = 1)

\* C8: calculateKPIDeltas computes, identically for each of the five KPI fields,
\* (current - previous) / |previous| * 100 when previous # 0, 0 when both are 0 and
\* 100 when only previous is 0; it never divides by zero.
C8_KPIDeltas ==
    (call.fn = "calculateKPIDeltas" /\ call.done) =>
        /\ \A f \in {"avgMemoryUsagePercent", "avgYARNMemoryAvailablePercent",
                     "avgRuntimeHours", "avgRemainingCapacityGB"} :
               DeltaRule(call.current[f], call.previous[f], call.out[f])
        /\ DeltaRule(Int2Num(call.current.clusterCount), Int2Num(call.previous.clusterCount),
                     call.out.clusterCount)

\* C8 witness: deltas against a negative, a zero and a positive previous value
C8_Witness ==
    /\ call.fn = "calculateKPIDeltas"
    /\ call.done
    /\ call.previous.avgRemainingCapacityGB = Num(-5, 2)
    /\ call.current.avgRemainingCapacityGB = Int2Num(5)
    /\ call.out.avgRemainingCapacityGB = Int2Num(300)
    /\ call.previous.avgRuntimeHours = Zero
    /\ call.current.avgRuntimeHours = Int2Num(5)
    /\ call.out.avgRuntimeHours = Int2Num(100)
    /\ call.previous.clusterCount = 0
    /\ call.current.clusterCount = 0
    /\ call.out.clusterCount = Zero
    /\ call.previous.avgMemoryUsagePercent = Int2Num(4)
    /\ call.current.avgMemoryUsagePercent = Int2Num(5)
    /\ call.out.avgMemoryUsagePercent = Int2Num(25)

\* the health score the claim defines for a bucket
DefinedScore(d) ==
    LET Pos(x) == IF x.n > 0 THEN x ELSE Zero
        penalty == Add(Add(Mul(Pos(Sub(d.avgMemoryUsagePercent, Int2Num(80))), Num(6, 5)),
                           Mul(Pos(Sub(Int2Num(30), d.avgYARNMemoryAvailablePercent)), Num(3, 2))),
                       Add(Mul(Pos(Sub(Int2Num(200), d.avgRemainingCapacityGB)), Num(1, 10)),
                           Mul(d.avgUnhealthyNodes, Int2Num(2))))
        raw == Sub(Int2Num(100), penalty)
    IN  IF raw.n < 0 THEN Zero ELSE IF raw.n > 100 * raw.d THEN Int2Num(100) ELSE raw

ScoreOf(d) == computeHealthSummary(<<d>>).daily[1].score

\* C9: for every daily bucket the health score of computeHealthSummary equals
\* 100 - (max(0, usage-80)*1.2 + max(0, 30-yarn)*1.5 + max(0, 200-capacity)*0.1
\* + unhealthyAvg*2.0) clamped to [0,100]; it lies in [0,100], never increases when
\* usage rises above 80 or the unhealthy average rises, and is exactly 100 when
\* usage = 0, yarn = 100, capacity >= 200 and unhealthy = 0.
C9_HealthScore ==
    (result.fn = "computeHealthSummary" /\ result.done) =>
        /\ Len(result.out.daily) = Len(dailyMetrics)
        /\ \A i \in 1..Len(dailyMetrics) :
               LET d == dailyMetrics[i]
                   p == result.out.daily[i]
               IN  /\ p.date = d.date
                   /\ p.score = DefinedScore(d)
                   /\ 0 <= p.score.n /\ p.score.n <= 100 * p.score.d
                   /\ \A u \in UsageGrid :
                          (Le(Int2Num(80), d.avgMemoryUsagePercent)
                              /\ Le(d.avgMemoryUsagePercent, u))
                          => Le(ScoreOf([d EXCEPT !.avgMemoryUsagePercent = u]), p.score)
                   /\ \A n \in UnhealthyGrid :
                          Le(d.avgUnhealthyNodes, n)
                          => Le(ScoreOf([d EXCEPT !.avgUnhealthyNodes = n]), p.score)
                   /\ (/\ d.avgMemoryUsagePercent = Zero
                       /\ d.avgYARNMemoryAvailablePercent = Int2Num(100)
                       /\ Le(Int2Num(200), d.avgRemainingCapacityGB)
                       /\ d.avgUnhealthyNodes = Zero) => p.score = Int2Num(100)

\* C9 witness: a bucket with usage 85, yarn 0, capacity 0 and 3 unhealthy nodes was
\* scored 100 - (6 + 45 + 20 + 6) = 23
C9_Witness ==
    /\ result.fn = "computeHealthSummary"
    /\ result.done
    /\ Len(dailyMetrics) = 1
    /\ dailyMetrics[1].avgMemoryUsagePercent = Int2Num(85)
    /\ dailyMetrics[1].avgYARNMemoryAvailablePercent = Zero
    /\ dailyMetrics[1].avgRemainingCapacityGB = Zero
    /\ dailyMetrics[1].avgUnhealthyNodes = Int2Num(3)
    /\ result.out.daily[1].score = Int2Num(23)

\* the scores computeHealthSummary returned for the buckets of rank below 7
LatestScores ==
    LET idx == Filter([i \in 1..Len(dailyMetrics) |-> i],
                      LAMBDA i : Rank(dailyMetrics[i]) < 7)
    IN  Map(idx, LAMBDA i : result.out.daily[i].score)

\* C10: the weeklyAverage of computeHealthSummary is the unweighted mean of the
\* health scores of the 7 most recent buckets by date (of all of them when there
\* are fewer than 7), in whatever order the buckets are given, and 0 when there is
\* no bucket.
C10_WeeklyAverage ==
    (result.fn = "computeHealthSummary" /\ result.done) =>
        /\ Len(result.out.daily) = Len(dailyMetrics)
        /\ Len(LatestScores) = (IF Len(dailyMetrics) < 7 THEN Len(dailyMetrics) ELSE 7)
        /\ result.out.weeklyAverage =
               (IF Len(dailyMetrics) = 0 THEN Zero ELSE Mean(LatestScores))

\* C10 witness: the summary of more than 7 buckets given oldest first, whose first
\* 7 buckets have another mean score than the 7 most recent ones
C10_Witness ==
    /\ result.fn = "computeHealthSummary"
    /\ result.done
    /\ Len(dailyMetrics) > 7
    /\ Rank(dailyMetrics[1]) = Len(dailyMetrics) - 1
    /\ result.out.weeklyAverage = Mean(LatestScores)
    /\ result.out.weeklyAverage #
           Mean(Map(Slice(result.out.daily, 0, 7), LAMBDA p : p.score))

\* a timestamp text that parses and falls on a local day of the range of the filters
InRange(str, filters, zone) ==
    /\ str.k = "iso"
    /\ LocalDay(filters.startDate[1].t, zone) <= LocalDay(str.t, zone)
    /\ LocalDay(str.t, zone) <= LocalDay(filters.endDate[1].t, zone)

\* the rule of the claim for one record
KeptBy(filters, zone, r) ==
    /\ filters.clusterName = "" \/ r.ClusterName = filters.clusterName
    /\ InRange(r.CreationDateTime, filters, zone) \/ InRange(r.EndDateTime, filters, zone)

\* C11: with both startDate and endDate, filterEMRData keeps a record if and only
\* if its name matches the clusterName filter (when given) and its creation time or
\* its end time lies in [start of startDate's day, end of endDate's day], the ends
\* included; a record without end time is kept only when its creation time is in
\* the range.
C11_FilterMatchesCreationOrEnd ==
    (daily.fn = "filterEMRData" /\ daily.done
        /\ daily.filters.startDate # <<>> /\ daily.filters.endDate # <<>>) =>
        /\ daily.out = Filter(data, LAMBDA r : KeptBy(daily.filters, tz, r))
        /\ \A i \in 1..Len(data) :
               (data[i].EndDateTime.k = "none"
                    /\ ~InRange(data[i].CreationDateTime, daily.filters, tz))
               => \A j \in 1..Len(daily.out) : daily.out[j] # data[i]

\* C11 witness: the range is the second day; the record that started the day before
\* and ended in it is kept, the running record of the day before is dropped
C11_Witness ==
    /\ daily.fn = "filterEMRData"
    /\ daily.done
    /\ daily.filters = DayRange("", 1, 1)
    /\ data = <<RecA25, RecA80, RecANextDay>>
    /\ daily.out = <<RecA25, RecANextDay>>

\* buckets in strictly ascending order of date, as aggregateDataByDay returns them
AscendingByDate(metrics) ==
    \A i \in 1..(Len(metrics) - 1) :
        DayBefore(KeyDay(metrics[i].date), KeyDay(metrics[i + 1].date))

\* C12 (as claimed): the analytics functions leave the array of daily buckets they
\* are given unchanged: after any call the caller's array holds the same buckets in
\* the ascending order of aggregateDataByDay.
C12_AnalyticsLeaveArrayUnchanged ==
    [][AscendingByDate(dailyMetrics) => dailyMetrics' = dailyMetrics]_vars

\* every stored record was created inside the selected date range
AllInDateRange ==
    \A i \in 1..Len(clusters) :
        /\ clusters[i].creationDateTime.ok
        /\ dateFilter.startDate.t <= clusters[i].creationDateTime.t
        /\ clusters[i].creationDateTime.t <= dateFilter.endDate.t

\* C13 (as claimed): for a stored record set whose records all fall inside the
\* selected date range, the provider's analytics.avgMemoryUsage equals the
\* avgMemoryUsagePercent of calculateFilteredKPIMetrics for the same records.
C13_AveragesAgree ==
    (Len(clusters) > 0 /\ AllInDateRange /\ ~rendered.threw) =>
        analytics.avgMemoryUsage = rendered.v.filteredMetrics[1].avgMemoryUsagePercent

\* the mean of the capacities of records with the negative ones counted as 0, and
\* with the negative ones left out
CapacityMeanZeroed(records) ==
    Mean(Map(records, LAMBDA r : IF r.MinCapacityRemainingGB.n < 0 THEN Zero
                                 ELSE r.MinCapacityRemainingGB))
CapacityMeanWithout(records) ==
    LET kept == Filter(records, LAMBDA r : r.MinCapacityRemainingGB.n >= 0)
    IN  IF Len(kept) = 0 THEN Zero ELSE Mean(Map(kept, LAMBDA r : r.MinCapacityRemainingGB))

NegativeCapacityIgnored(value, records) ==
    value \in {CapacityMeanZeroed(records), CapacityMeanWithout(records)}

\* the stored records as the metric functions receive them, those in the date range
StoredRecords == getRawClusterData(clusters).v
RecordsInRange == Filter(StoredRecords, LAMBDA r : KeptBy(DateOnly(dateFilter), tz, r))

\* C14 (as claimed): a negative MinCapacityRemainingGB counts as absent or zero in
\* every calculation that consumes it: the daily buckets' avgRemainingCapacityGB,
\* the filtered KPIs' avgRemainingCapacityGB and the provider's
\* totalRemainingCapacityGB are never lowered by it.
C14_NegativeCapacityIgnored ==
    (Len(clusters) > 0 /\ ~rendered.threw) =>
        /\ analytics.totalRemainingCapacityGB =
               SumSeq(Map(clusters, LAMBDA c : MathMax(Zero, c.minCapacityRemainingGB)))
        /\ RecordsInRange # <<>> =>
               NegativeCapacityIgnored(rendered.v.filteredMetrics[1].avgRemainingCapacityGB,
                                       RecordsInRange)
        /\ \A i \in 1..Len(rendered.v.timeSeriesData) :
               LET bucket == rendered.v.timeSeriesData[i]
               IN  NegativeCapacityIgnored(
                       bucket.avgRemainingCapacityGB,
                       Filter(RecordsInRange,
                              LAMBDA r : FormatDay(parseISO(r.CreationDateTime), tz).v
                                             = bucket.date))

\* C15: forecastMemoryUsage never divides by zero: for no bucket it returns no
\* point; for one bucket it returns horizonDays points that all equal the bucket's
\* avgMemoryUsagePercent; for every non-empty input it returns exactly horizonDays
\* points, each with a predicted value in [0,100].
C15_ForecastBounded ==
    (result.fn = "forecastMemoryUsage" /\ result.done) =>
        /\ Len(dailyMetrics) = 0 => result.out = <<>>
        /\ Len(dailyMetrics) > 0 =>
               /\ Len(result.out) = result.horizonDays
               /\ \A i \in 1..Len(result.out) :
                      LET y == result.out[i].avgMemoryUsagePercent
                      IN  y.k = "num" /\ y.d > 0 /\ 0 <= y.n /\ y.n <= 100 * y.d
        /\ Len(dailyMetrics) = 1 =>
               \A i \in 1..Len(result.out) :
                   result.out[i].avgMemoryUsagePercent = dailyMetrics[1].avgMemoryUsagePercent

\* C15 witness: the 7-day forecast of a single bucket with 85 % usage repeats 85
C15_Witness ==
    /\ result.fn = "forecastMemoryUsage"
    /\ result.done
    /\ Len(dailyMetrics) = 1
    /\ dailyMetrics[1].avgMemoryUsagePercent = Int2Num(85)
    /\ Len(result.out) = 7
    /\ result.out[7].avgMemoryUsagePercent = Int2Num(85)
    /\ result.out[7].date = KeyOfDay(BaseDay + 7)

\* the candidates pooled metric by metric, bucket by bucket: candidate p is bucket
\* ((p - 1) % n) + 1 under metric ((p - 1) \div n) + 1
PoolSize == 4 * Len(dailyMetrics)
PoolBucket(p) == dailyMetrics[((p - 1) % Len(dailyMetrics)) + 1]
PoolMetric(p) == AnomalyMetrics[((p - 1) \div Len(dailyMetrics)) + 1]
PoolValues(p) == Map(dailyMetrics, LAMBDA d : d[PoolMetric(p)])

\* the square of the z-score the claim defines for candidate p
PoolSquare(p) ==
    LET values   == PoolValues(p)
        mean     == Mean(values)
        variance == Mean(Map(values, LAMBDA v : Mul(Sub(v, mean), Sub(v, mean))))
        dev      == Sub(PoolBucket(p)[PoolMetric(p)], mean)
    IN  IF variance.n = 0 THEN Mul(dev, dev) ELSE Div(Mul(dev, dev), variance)

\* candidate p is ranked before candidate q: larger |z|, or equal |z| and pooled first
RankedBefore(p, q) ==
    \/ Lt(PoolSquare(q), PoolSquare(p))
    \/ PoolSquare(q) = PoolSquare(p) /\ p < q

\* the candidate an entry of the result stands for
PoolIndex(e) ==
    CHOOSE p \in 1..PoolSize : PoolBucket(p).date = e.date /\ PoolMetric(p) = e.metric

\* C16: detectAnomalies(buckets, N) returns min(N, 4 * number of buckets) entries,
\* one candidate per (day, metric) pair over the four metrics, each z-score being
\* (value - mean) / stdDev with stdDev replaced by 1 when it is 0; the entries are
\* the N candidates of largest |z| in non-increasing order of |z|, ties in pooled
\* input order (metric order, then bucket order).
C16_TopAnomalies ==
    (result.fn = "detectAnomalies" /\ result.done) =>
        LET out  == result.out
            at(j) == PoolIndex(out[j])
        IN  /\ Len(out) = (IF result.topN < PoolSize THEN result.topN ELSE PoolSize)
            /\ \A j \in 1..Len(out) :
                   /\ \E p \in 1..PoolSize :
                          PoolBucket(p).date = out[j].date /\ PoolMetric(p) = out[j].metric
                   /\ out[j].value = PoolBucket(at(j))[PoolMetric(at(j))]
                   /\ out[j].zScore.square = PoolSquare(at(j))
                   /\ out[j].zScore.sign =
                          (LET dev == Sub(out[j].value, Mean(PoolValues(at(j))))
                           IN  IF dev.n > 0 THEN 1 ELSE IF dev.n < 0 THEN -1 ELSE 0)
            /\ \A j \in 1..(Len(out) - 1) : RankedBefore(at(j), at(j + 1))
            /\ \A p \in 1..PoolSize :
                   (\A j \in 1..Len(out) : at(j) # p) =>
                       \A j \in 1..Len(out) : RankedBefore(at(j), p)

\* C16 witness: the top 3 of three days at levels 0, 1, 3 are the entries of the
\* third day: the runtime first, then the usage and the capacity, whose |z| are
\* equal, in metric order
C16_Witness ==
    /\ result.fn = "detectAnomalies"
    /\ result.done
    /\ result.topN = 3
    /\ Len(dailyMetrics) = 3
    /\ dailyMetrics[1].avgMemoryUsagePercent = Zero
    /\ dailyMetrics[2].avgMemoryUsagePercent = Int2Num(10)
    /\ dailyMetrics[3].avgMemoryUsagePercent = Int2Num(30)
    /\ Len(result.out) = 3
    /\ \A j \in 1..3 : result.out[j].date = dailyMetrics[3].date
    /\ result.out[1].metric = "avgRuntimeHours"
    /\ result.out[2].metric = "avgMemoryUsagePercent"
    /\ result.out[3].metric = "avgRemainingCapacityGB"
    /\ result.out[2].zScore.square = result.out[3].zScore.square
    /\ result.out[2].zScore.sign = 1
    /\ result.out[3].zScore.sign = -1

\* the daily buckets calculateWeeklyKPIMetrics groups
WeeklyDailyData == aggregateDataByDay(filterEMRData(data, DateOnly(daily.filter), tz), tz)

\* the key of the Sunday on or before the day of a 'yyyy-MM-dd' key
SundayKey(key) ==
    LET day == DayOfKey(key)
    IN  KeyOfDay(day - ((day + 4) % 7))

\* C17 (as claimed): calculateWeeklyKPIMetrics places every daily bucket of the
\* filtered data in exactly one weekly bucket, keyed by the Sunday on or before the
\* bucket's date; weekly buckets have distinct keys in ascending order, each metric
\* is the mean of the daily means of the week, and clusterCount is the number of
\* distinct names of the week's days.
C17_WeeksStartOnSunday ==
    (daily.fn = "calculateWeeklyKPIMetrics" /\ daily.done) =>
        LET out == daily.out
            DaysOf(week) == Filter(WeeklyDailyData, LAMBDA d : SundayKey(d.date) = week)
        IN  /\ {out[i].week : i \in 1..Len(out)}
                   = {SundayKey(WeeklyDailyData[j].date) : j \in 1..Len(WeeklyDailyData)}
            /\ \A i \in 1..(Len(out) - 1) :
                   DayBefore(KeyDay(out[i].week), KeyDay(out[i + 1].week))
            /\ \A i \in 1..Len(out) :
                   LET days == DaysOf(out[i].week)
                   IN  /\ days # <<>>
                       /\ out[i].avgMemoryUsagePercent
                              = Mean(Map(days, LAMBDA d : d.avgMemoryUsagePercent))
                       /\ out[i].avgYARNMemoryAvailablePercent
                              = Mean(Map(days, LAMBDA d : d.avgYARNMemoryAvailablePercent))
                       /\ out[i].avgRuntimeHours = Mean(Map(days, LAMBDA d : d.avgRuntimeHours))
                       /\ out[i].avgRemainingCapacityGB
                              = Mean(Map(days, LAMBDA d : d.avgRemainingCapacityGB))
                       /\ out[i].clusterCount = Cardinality(NamesIn(days))

\* the pieces of a text between the occurrences of a separator character
RECURSIVE SplitAt(_, _)
SplitAt(text, sep) ==
    IF \A i \in 1..Len(text) : text[i] # sep THEN <<text>>
    ELSE LET k == CHOOSE i \in 1..Len(text) :
                      text[i] = sep /\ \A j \in 1..(i - 1) : text[j] # sep
         IN  <<SubSeq(text, 1, k - 1)>> \o SplitAt(SubSeq(text, k + 1, Len(text)), sep)

\* the number written by a text of digits
RECURSIVE DigitsNumber(_)
DigitsNumber(text) ==
    IF text = <<>> THEN 0
    ELSE 10 * DigitsNumber(SubSeq(text, 1, Len(text) - 1)) + (text[Len(text)] - 48)

\* text writes the number x with exactly two decimals: an optional minus sign, at
\* least one digit, a point and two digits, no further from x than half a hundredth
TwoDecimals(text, x) ==
    LET body   == IF text # <<>> /\ text[1] = 45 THEN Tail(text) ELSE text
        n      == Len(body)
        digits == SubSeq(body, 1, n - 3) \o SubSeq(body, n - 1, n)
    IN  /\ n >= 4
        /\ body[n - 2] = 46
        /\ \A i \in 1..Len(digits) : digits[i] \in 48..57
        /\ (text[1] = 45) => x.n < 0
        /\ 2 * Abs(100 * Abs(x.n) - DigitsNumber(digits) * x.d) <= x.d

\* C18: exportToCSV returns the empty string for an empty bucket list; for a
\* non-empty list it returns the header line of 8 columns followed by exactly one
\* line per bucket in input order, holding the date, the five averaged metrics
\* with exactly two decimals, the cluster count and the cluster names joined by ';'
C18_CsvOneLinePerBucket ==
    result.fn = "exportToCSV" =>
        IF dailyMetrics = <<>> THEN result.out = <<>>
        ELSE LET lines == SplitAt(result.out, LineFeed)
             IN  /\ Len(lines) = 1 + Len(dailyMetrics)
                 /\ SplitAt(lines[1], Comma) = headers
                 /\ Len(headers) = 8
                 /\ \A i \in 1..Len(dailyMetrics) :
                        LET b      == dailyMetrics[i]
                            fields == SplitAt(lines[i + 1], Comma)
                        IN  /\ Len(fields) >= 8
                            /\ fields[1] = b.date
                            /\ TwoDecimals(fields[2], b.avgMemoryUsagePercent)
                            /\ TwoDecimals(fields[3], b.avgYARNMemoryAvailablePercent)
                            /\ TwoDecimals(fields[4], b.avgRuntimeHours)
                            /\ TwoDecimals(fields[5], b.avgRemainingCapacityGB)
                            /\ TwoDecimals(fields[6], b.avgUnhealthyNodes)
                            /\ fields[7] = NaturalToString(b.clusterCount)
                            /\ Join(SubSeq(fields, 8, Len(fields)), Comma)
                                   = Join(Map(b.clusters, CharsOf), Semicolon)

\* C19: after any sequence of uploads every record of the store carries a
\* synthetic id that no other record of the store carries, whether of the same
\* batch or of another one, and that differs from the record's own ClusterId
C19_SyntheticIdsUnique ==
    /\ \A i, j \in 1..Len(clusters) :
           IdText(clusters[i].id) = IdText(clusters[j].id) => i = j
    /\ \A i \in 1..Len(clusters) :
           IdText(clusters[i].id) # CharsOf(clusters[i].clusterId)

\* the positions (from 0) of the entries of a file that lack a required field
LackingPositions(file) ==
    {i - 1 : i \in {k \in 1..Len(file.entries) :
                       \/ Absent(file.entries[k].ClusterName)
                       \/ Absent(file.entries[k].ClusterId)
                       \/ Absent(file.entries[k].State)}}

\* the batches of entries that uploads deliver: arrays and single objects
Batches == {file \in Files : file.kind \in {"array", "object"}}

\* the step stores nothing of the file and reports an error
Rejects == clusters' = clusters /\ error'.set

\* the error of the step names the first position where a required field lacks
NamesFirstLacking(file) ==
    /\ error'.msg = "Missing required fields in cluster data at index"
    /\ error'.index \in LackingPositions(file)
    /\ \A p \in LackingPositions(file) : error'.index <= p

\* C20 (as claimed): processJsonFile rejects a batch if and only if some entry has
\* ClusterName, ClusterId or State missing, null or empty, and the error names the
\* position of the first such entry; a single object is a batch of one at position 0
C20_RejectsIffRequiredFieldLacks ==
    [][\A file \in Batches :
           FinishUpload(file) =>
               /\ Rejects <=> LackingPositions(file) # {}
               /\ Rejects => NamesFirstLacking(file)]_vars

\* C20 (amended): processJsonFile rejects a batch that holds at least one entry if
\* and only if some entry has ClusterName, ClusterId or State missing, null or
\* empty (an entry without EndDateTime or without the optional numbers is stored),
\* and the error then names the position of the first such entry in array order; a
\* single object is a batch of one at position 0. An empty array is rejected too,
\* with an error that names no position.
C20_NonEmptyBatchRejectedIffRequiredFieldLacks ==
    [][\A file \in Batches :
           FinishUpload(file) =>
               IF Len(file.entries) = 0
               THEN Rejects /\ error'.index = -1
               ELSE /\ Rejects <=> LackingPositions(file) # {}
                    /\ Rejects => NamesFirstLacking(file)
                    /\ (file.kind = "object" /\ Rejects) => error'.index = 0]_vars

\* C20 witness: a record without EndDateTime and without MaxMRUnhealthyNodes was
\* stored, and a later batch was rejected at position 0
C20_Witness ==
    /\ Len(clusters) > 0
    /\ \E i \in 1..Len(clusters) :
           clusters[i].endDateTime = <<>> /\ clusters[i].maxMRUnhealthyNodes.k = "undef"
    /\ error.set
    /\ error.msg = "Missing required fields in cluster data at index"
    /\ error.index = 0
    /\ pending = 0

\* the analytics of an empty store: every number 0, no state and no name counted
AnalyticsAllZero(a) ==
    /\ a.totalClusters = 0
    /\ a.avgMemoryUsage = Zero
    /\ a.totalRuntimeHours = Zero
    /\ a.totalRemainingCapacityGB = Zero
    /\ a.activeClusters = 0
    /\ DOMAIN a.clustersByState = {}
    /\ DOMAIN a.clustersByName = {}

\* C21: a successful upload of k valid entries grows the store by exactly k
\* records, appended after the existing ones in batch order, each carrying its
\* entry's name, ClusterId and state; the existing records are unchanged and an
\* entry whose ClusterId is stored already is added all the same. clearData leaves
\* the store empty and the error cleared, and the analytics are then all zero.
C21_UploadAppendsClearEmpties ==
    [][/\ \A file \in Files :
              (FinishUpload(file) /\ ~FileFails(file)) =>
                  LET k == Len(file.entries)
                      n == Len(clusters)
                  IN  /\ Len(clusters') = n + k
                      /\ SubSeq(clusters', 1, n) = clusters
                      /\ \A i \in 1..k :
                             /\ clusters'[n + i].clusterName = file.entries[i].ClusterName
                             /\ clusters'[n + i].clusterId = file.entries[i].ClusterId
                             /\ clusters'[n + i].state = file.entries[i].State
       /\ clearData =>
              /\ clusters' = <<>>
              /\ ~error'.set
              /\ AnalyticsAllZero(calculateAnalytics(clusters'))]_vars

\* C21 witness: two uploads of the same ClusterId left two records in the store
C21_Witness ==
    /\ Len(clusters) = 2
    /\ clusters[1].clusterId = clusters[2].clusterId
    /\ clusters[1].clusterName = clusters[2].clusterName
    /\ pending = 0
    /\ ~error.set

\* no record of data is in the date range of the call
NothingInRange == \A i \in 1..Len(data) : ~KeptBy(DateOnly(daily.filter), tz, data[i])

\* C22: for an empty record set, and for a date filter that matches no record,
\* every computation returns its empty result: aggregateDataByDay no buckets,
\* calculateFilteredKPIMetrics and calculateWeeklyKPIs all-zero KPIs,
\* computeHealthSummary no daily scores and weeklyAverage 0, detectAnomalies and
\* forecastMemoryUsage no entries
C22_EmptyResults ==
    (daily.done /\ daily.fn = "calculateFilteredKPIMetrics" /\ NothingInRange) =>
        /\ daily.buckets = <<>>
        /\ daily.out = ZeroKPIs
        /\ result.current = ZeroKPIs
        /\ result.out.health.daily = <<>>
        /\ result.out.health.weeklyAverage = Zero
        /\ result.out.anomalies = <<>>
        /\ result.out.forecast = <<>>

\* C22 witness: two records were given and the date range held neither
C22_Witness ==
    /\ daily.done
    /\ daily.fn = "calculateFilteredKPIMetrics"
    /\ Len(data) = 2
    /\ \A i \in 1..Len(data) : Parseable(data[i])
    /\ NothingInRange
    /\ result.out.forecast = <<>>

\* the records of data that the date range of the call keeps, in input order
KeptRecords == Filter(data, LAMBDA r : KeptBy(DateOnly(daily.filter), tz, r))

\* the whole hours h of a run of a record that ends no earlier than it starts:
\* h hours fit into the run and h + 1 do not; 0 for every other record
FlooredHours(r) ==
    IF r.CreationDateTime.k # "iso" \/ r.EndDateTime.k # "iso" THEN Zero
    ELSE IF r.EndDateTime.t < r.CreationDateTime.t THEN Zero
    ELSE LET run == r.EndDateTime.t - r.CreationDateTime.t
         IN  Int2Num(CHOOSE h \in 0..run : 60 * h <= run /\ run < 60 * (h + 1))

SatisfiesActiveCriteria(c) ==
    /\ activeFilter # <<>> => c.clusterName = activeFilter[1].value
    /\ stateFilter # "" => c.state = stateFilter
    /\ searchTerm # <<>> =>
           \/ includes(toLowerCase(CharsOf(c.clusterName)), toLowerCase(searchTerm))
           \/ includes(toLowerCase(CharsOf(c.clusterId)), toLowerCase(searchTerm))

\* C24: after any sequence of search changes, state-filter changes and chart
\* clicks, the displayed list is the stored records that satisfy the chart filter,
\* the state filter and the search term together
C24_DisplayedSatisfiesAllCriteria ==
    filteredClusters = Filter(clusters, SatisfiesActiveCriteria)

\* C25: while a chart cluster-name filter is active, every record of the displayed
\* list has that cluster name, also after an upload has appended records
C25_DisplayedHasFilteredName ==
    (activeFilter # <<>> /\ activeFilter[1].type = "clusterName") =>
        \A i \in 1..Len(filteredClusters) :
            filteredClusters[i].clusterName = activeFilter[1].value

\* a step that changes the search term, the state filter or the page size, or a
\* chart filter step that replaces the displayed list
FilterOrPageSizeChange ==
    \/ searchTerm' # searchTerm
    \/ stateFilter' # stateFilter
    \/ itemsPerPage' # itemsPerPage
    \/ (activeFilter' # activeFilter /\ filteredClusters' # filteredClusters)

C30_ChangeResetsPage == [][FilterOrPageSizeChange => currentPage' = 1]_vars

C30_PageInRange ==
    LET total == totalPages(filteredClusters, itemsPerPage)
    IN  1 <= currentPage /\ currentPage <= (IF total > 1 THEN total ELSE 1)

\* C30: every change of the search term, the state filter, the page size, or of the
\* chart filter that replaces the displayed list, sets the current page to 1, and
\* the current page always lies in 1..max(1, totalPages)
C30_PageResetAndInRange == C30_ChangeResetsPage /\ []C30_PageInRange

\* C26: isLoading is TRUE exactly while at least one processJsonFile call has
\* started and not yet settled
C26_LoadingIffCallInFlight == isLoading <=> pending > 0

C28_DailyPointsInsideRange ==
    (daily.done /\ daily.fn = "calculateDailyKPIMetrics") =>
        \A i \in 1..Len(daily.out) :
            /\ LocalDay(daily.filter.startDate.t, tz) <= DayOfKey(daily.out[i].date)
            /\ DayOfKey(daily.out[i].date) <= LocalDay(daily.filter.endDate.t, tz)

\* the creation and end times that the records hold
TimesPresent(records) ==
    {records[i].CreationDateTime.t : i \in {j \in 1..Len(records) :
                                              records[j].CreationDateTime.k = "iso"}}
    \cup {records[i].EndDateTime.t : i \in {j \in 1..Len(records) :
                                              records[j].EndDateTime.k = "iso"}}

\* every creation time is a valid timestamp, every end time is one or is absent
WellTimed(records) ==
    \A i \in 1..Len(records) :
        /\ records[i].CreationDateTime.k = "iso"
        /\ records[i].EndDateTime.k \in {"iso", "none"}

\* C29: for a non-empty record set getDateRange returns two valid timestamps,
\* startDate the earliest and endDate the latest of the creation and end times
\* present, startDate <= endDate, also when a record has no end time
C29_DateRangeSpansAllTimes ==
    (daily.done /\ daily.fn = "getDateRange" /\ Len(data) > 0 /\ WellTimed(data)) =>
        /\ daily.out.startDate.ok
        /\ daily.out.endDate.ok
        /\ daily.out.startDate.t <= daily.out.endDate.t
        /\ \A t \in TimesPresent(data) :
               daily.out.startDate.t <= t /\ t <= daily.out.endDate.t
        /\ daily.out.startDate.t \in TimesPresent(data)
        /\ daily.out.endDate.t \in TimesPresent(data)

====
